---- MODULE Spec2Model ----
(***************************************************************************)
(* A model of the Redis engine of lib/engine/engineredis/engine.go: the    *)
(* engine facade that routes operations to shards, the key schema, the     *)
(* store's commands and scripts, the publish and data pipelines and the    *)
(* PUB/SUB loop with its subscriber, receiver and workers.                 *)
(*                                                                         *)
(* Strings are sequences of character codes, so that prefixing and hashing *)
(* are computed and not assumed.                                           *)
(***************************************************************************)
EXTENDS Integers, Sequences, FiniteSets, TLC

(***************************************************************************)
(* Names                                                                   *)
(***************************************************************************)
\* ShardConfig.Prefix of the shard: "p"
Prefix == <<112>>
\* ".control"
RedisControlChannelSuffix == <<46, 99, 116, 108>>
\* ".ping"
RedisPingChannelSuffix == <<46, 112, 105>>
\* ".client."
RedisClientChannelPrefix == <<46, 99, 108, 46>>
\* ".presence.data."
PresenceDataInfix == <<46, 112, 100, 46>>
\* ".presence.expire."
PresenceExpireInfix == <<46, 112, 101, 46>>
\* ".history.list."
HistoryListInfix == <<46, 104, 108, 46>>
\* ".history.touch."
HistoryTouchInfix == <<46, 104, 116, 46>>

\* The logical channels of the model: "a", "b" and "ab".
ChA == <<97>>
ChB == <<98>>
ChAB == <<97, 98>>
Channels == {ChA, ChB}
RouteChannels == {ChA, ChB, ChAB}
NoChannel == <<>>

messagePrefix == Prefix \o RedisClientChannelPrefix
messageChannelID(ch) == messagePrefix \o ch
controlChannelID == Prefix \o RedisControlChannelSuffix
pingChannelID == Prefix \o RedisPingChannelSuffix
getPresenceHashKey(ch) == Prefix \o PresenceDataInfix \o ch
getPresenceSetKey(ch) == Prefix \o PresenceExpireInfix \o ch
getHistoryKey(ch) == Prefix \o HistoryListInfix \o ch
getHistoryTouchKey(ch) == Prefix \o HistoryTouchInfix \o ch

(***************************************************************************)
(* Hashing.  consistentIndex and index are defined outside engine.go; the  *)
(* model takes a deterministic hash of the name modulo the bucket count.   *)
(***************************************************************************)
HashWidth == 65536
HashMul == 31

RECURSIVE HashFrom(_, _, _)
HashFrom(s, i, h) ==
    IF i > Len(s) THEN h
    ELSE HashFrom(s, i + 1, (h * HashMul + s[i]) % HashWidth)

Hash(s) == HashFrom(s, 1, 7)

consistentIndex(s, numBuckets) == Hash(s) % numBuckets

index(s, numBuckets) == IF numBuckets = 1 THEN 0 ELSE Hash(s) % numBuckets

(***************************************************************************)
(* Bounds                                                                  *)
(***************************************************************************)
MaxShards == 3
\* The clock runs from 1 to MaxTime seconds.
MaxTime == 3
\* Capacity of the data request channel in the model (the code's is 256).
DataChannelCap == 2
\* Capacity of the publish request channel in the model (the code's is 1024).
PublishChannelCap == 2
\* Capacity of the subscribe request channel in the model (the code's is 4096).
SubscribeChannelCap == 2
\* Most subscribe commands the connection holds on their way to the store.
ConnBufferCap == 1
\* Most requests of one publish batch in the model (the code's is 2048).
PublishBatchLimit == 2
\* Most channels of one initial subscribe request in the model (the code's is 2048).
SubscribeBatchLimit == 2
\* ShardConfig.PubSubNumWorkers
NumWorkers == 2
\* The publications of a run are numbered 1..MaxMsgs in the order of the calls.
MaxMsgs == 3
\* The publications of a run with failures of the connections.
MaxPubs == 2
\* The subscription connection fails at most MaxFailures times.
MaxFailures == 1

\* The goroutines of the node that call the engine.
Tasks == {"t1", "t2"}
UIDs == {"u1", "u2"}
Infos == {"i1", "i2"}
\* The expire arguments AddPresence is called with (seconds).
Expires == {-1, 0, 1, 2}
\* The channels whose presence is exercised.
PresenceChannels == {ChA}
\* The channels whose history is exercised.
HistoryChannels == {ChA}
\* The channels that are subscribed to and published on.
PubSubChannels == {ChA}
\* The limits History is called with.
Limits == {0, 2}

\* channel.Options: no history, and history with and without drop-inactive.
NoOptions == [HistorySize |-> 0, HistoryLifetime |-> 0, HistoryDropInactive |-> FALSE]
HistoryOptions ==
    {[HistorySize |-> 2, HistoryLifetime |-> 2, HistoryDropInactive |-> FALSE],
     [HistorySize |-> 1, HistoryLifetime |-> 1, HistoryDropInactive |-> TRUE]}

VARIABLES
    shards,      \* len(e.shards)
    sharding,    \* e.sharding
    routed,      \* per logical channel, the shard indexes operations were handed to
    ctlRouted,   \* the shard indexes PublishControl was handed to
    lastCall,    \* the last engine operation: its name, channel and shard
    prevCall,    \* the engine operation before it
    now,         \* the clock, in seconds (time.Now().Unix() and the store's)
    store,       \* the store: keys, subscriptions of the shard's PUB/SUB connection
    chOpts,      \* the node's options of each channel
    hub,         \* the channels the node's hub has local subscribers for
    tpc,         \* per task: "off", "idle" or where it waits
    tret,        \* per task: what its last call returned
    tsub,        \* per task: the reply to its pending subscribe request
    dataCh,      \* Shard.dataCh
    dataPc,      \* position of runDataPipeline
    drs,         \* runDataPipeline's batch
    dataI,       \* index of the next request of drs to be answered
    pubCh,       \* Shard.pubCh
    pubPc,       \* position of runPublishPipeline
    prs,         \* runPublishPipeline's batch
    pubI,        \* index of the next request of prs to be answered
    pubRes,      \* per publication, what its reply channel got
    nextMsg,     \* the number of the next publication
    subCh,       \* Shard.subCh
    psPc,        \* position of runPubSub
    connOpen,    \* the subscription connection is open
    subscriber,  \* the subscriber goroutine of this runPubSub: "none", "run", "gone"
    subOut,      \* subscribe commands flushed to the store and not yet processed
    initLeft,    \* the initial subscribe requests runPubSub has still to make
    initWait,    \* runPubSub waits for the result of an initial request
    lanes,       \* the worker channels of this runPubSub
    zlanes,      \* the worker channels of the runPubSub invocations that returned
    handled,     \* the messages handed to the node's client message handler
    failures,    \* how often the subscription connection failed
    prevExec,    \* the add-presence request, if the store executed one last at this time
    removed,     \* per channel and UID: "never" added, "added", or "removed" since
    lease,       \* per channel and UID: the expire-at of the add the store ran last
    lastPub,     \* per channel, the last publication with history the store applied
    subOK,       \* the channels whose Subscribe returned nil, with no Unsubscribe since
    pubInfo,     \* per publication, the circumstances of its call and of its fate
    shardSubs,   \* per shard, the channels with subscribers in the shard's store
    chanCall,    \* the engine's Channels call: its position, shard and channel map
    tpub,        \* per task: the publish request it is about to put on pubCh
    pubConn,     \* the connection of runPublishPipeline's batch: its error, noScriptError
    dataConn,    \* the connection of runDataPipeline's batch: its error, noScriptError
    psLog,       \* the runPubSub invocation's number, what it listed, requested,
                 \* received and what the workers took
    zsub,        \* the subscriber goroutines of the runPubSub invocations that returned
    shutdown,    \* the node has closed the channel of NotifyShutdown()
    pace         \* the time since the publish pipeline entered its select, since its
                 \* last ping, and since the receiver called conn.Receive()

routeVars == <<shards, sharding, routed, ctlRouted, lastCall, prevCall>>
envVars == <<chOpts, hub>>
taskVars == <<tpc, tret, tsub>>
dataVars == <<dataCh, dataPc, drs, dataI>>
pubVars == <<pubCh, pubPc, prs, pubI, pubRes, nextMsg>>
psVars == <<subCh, psPc, connOpen, subscriber, subOut, initLeft, initWait,
            lanes, zlanes, handled, failures>>
presGhost == <<prevExec, removed, lease>>
pubGhost == <<lastPub, subOK, pubInfo>>

chanVars == <<shardSubs, chanCall>>
connVars == <<pubConn, dataConn>>
supVars == <<shutdown, pace>>
\* What no goroutine of the shard but the one that keeps the time changes.
extVars0 == <<chanVars, tpub, connVars, psLog, zsub, shutdown>>
extVars == <<extVars0, pace>>
\* What the publish pipeline, the data pipeline and runPubSub leave alone.
pubExt0 == <<chanVars, tpub, dataConn, psLog, zsub, shutdown>>
pubExt == <<pubExt0, pace>>
dataExt == <<chanVars, tpub, pubConn, psLog, zsub, supVars>>
psExt0 == <<chanVars, tpub, connVars, shutdown>>
psExt == <<psExt0, pace>>

shardVars == <<now, store, envVars, taskVars, dataVars, pubVars, psVars,
               presGhost, pubGhost>>
vars == <<routeVars, shardVars, extVars>>

(***************************************************************************)
(* The store: Redis keys with their values and expiry deadlines, and the   *)
(* PUB/SUB state of the shard's subscription connection.                   *)
(***************************************************************************)
EmptyMap == [x \in {} |-> 0]
MapPut(f, k, v) == [x \in (DOMAIN f) \cup {k} |-> IF x = k THEN v ELSE f[x]]
MapDel(f, k) == [x \in (DOMAIN f) \ {k} |-> f[x]]
Min(a, b) == IF a < b THEN a ELSE b

ZKeys == {getPresenceSetKey(c) : c \in Channels}
HKeys == {getPresenceHashKey(c) : c \in Channels}
LKeys == {getHistoryKey(c) : c \in Channels}
SKeys == {getHistoryTouchKey(c) : c \in Channels}
Keys == ZKeys \cup HKeys \cup LKeys \cup SKeys

\* ttl of a key without expiry
NoTTL == -1

\* subs: the channels the shard's subscription connection is subscribed to;
\* inq: the messages pushed to that connection and not yet received;
\* others: the channels that connections of other nodes are subscribed to;
\* applied: every PUBLISH the store applied, in order;
\* scripts: the scripts in the store's script cache.
EmptyStore ==
    [zsets |-> [k \in ZKeys |-> EmptyMap],
     hashes |-> [k \in HKeys |-> EmptyMap],
     lists |-> [k \in LKeys |-> <<>>],
     strs |-> [k \in SKeys |-> <<>>],
     ttl |-> [k \in Keys |-> NoTTL],
     subs |-> {},
     inq |-> <<>>,
     others |-> {},
     applied |-> <<>>,
     scripts |-> {}]

\* A key exists while its value is not empty.
Exists(st, key) ==
    \/ key \in ZKeys /\ DOMAIN st.zsets[key] # {}
    \/ key \in HKeys /\ DOMAIN st.hashes[key] # {}
    \/ key \in LKeys /\ st.lists[key] # <<>>
    \/ key \in SKeys /\ st.strs[key] # <<>>

\* DEL, and what the store does with a key that expired or became empty.
DelKey(st, key) ==
    [st EXCEPT !.zsets = [k \in ZKeys |-> IF k = key THEN EmptyMap ELSE @[k]],
               !.hashes = [k \in HKeys |-> IF k = key THEN EmptyMap ELSE @[k]],
               !.lists = [k \in LKeys |-> IF k = key THEN <<>> ELSE @[k]],
               !.strs = [k \in SKeys |-> IF k = key THEN <<>> ELSE @[k]],
               !.ttl[key] = NoTTL]

\* A key whose value became empty is removed, with its expiry.
Normalize(st, key) == IF Exists(st, key) THEN st ELSE DelKey(st, key)

ZADD(st, key, score, member) ==
    [st EXCEPT !.zsets[key] = MapPut(@, member, score)]

HSET(st, key, field, value) ==
    [st EXCEPT !.hashes[key] = MapPut(@, field, value)]

\* EXPIRE key seconds: a timeout that is not positive deletes the key.
EXPIRE(st, key, seconds) ==
    IF ~Exists(st, key) THEN st
    ELSE IF seconds <= 0 THEN DelKey(st, key)
    ELSE [st EXCEPT !.ttl[key] = now + seconds]

HDEL(st, key, field) ==
    Normalize([st EXCEPT !.hashes[key] = MapDel(@, field)], key)

ZREM(st, key, member) ==
    Normalize([st EXCEPT !.zsets[key] = MapDel(@, member)], key)

\* ZRANGEBYSCORE key min max: the members with min <= score <= max.
ZRANGEBYSCORE(st, key, min, max) ==
    {m \in DOMAIN st.zsets[key] :
        st.zsets[key][m] >= min /\ st.zsets[key][m] <= max}

ZREMRANGEBYSCORE(st, key, min, max) ==
    Normalize([st EXCEPT !.zsets[key] =
        [m \in (DOMAIN @) \ ZRANGEBYSCORE(st, key, min, max) |-> @[m]]], key)

RECURSIVE FlatPairs(_)
FlatPairs(f) ==
    IF DOMAIN f = {} THEN <<>>
    ELSE LET k == CHOOSE x \in DOMAIN f : TRUE
         IN <<k, f[k]>> \o FlatPairs(MapDel(f, k))

\* HGETALL key: the fields and values of the hash, as a flat list.
HGETALL(st, key) == FlatPairs(st.hashes[key])

\* EXISTS key
EXISTS(st, key) == IF Exists(st, key) THEN 1 ELSE 0

\* LPUSH key value: the value becomes the head; the reply is the new length.
LPUSH(st, key, value) ==
    [st |-> [st EXCEPT !.lists[key] = <<value>> \o @],
     reply |-> Len(st.lists[key]) + 1]

\* LPUSHX key value: LPUSH only if the list exists; the reply is the length.
LPUSHX(st, key, value) ==
    IF Exists(st, key) THEN LPUSH(st, key, value) ELSE [st |-> st, reply |-> 0]

\* An index of a list command as a position: negative ones count from the tail.
ListPos(len, i) == IF i < 0 THEN len + i + 1 ELSE i + 1

\* LTRIM key start stop: keeps the entries start..stop, both inclusive.
LTRIM(st, key, start, stop) ==
    LET len == Len(st.lists[key])
    IN Normalize([st EXCEPT !.lists[key] =
           SubSeq(@, ListPos(len, start), Min(ListPos(len, stop), len))], key)

\* LRANGE key start stop: the entries start..stop, both inclusive.
LRANGE(st, key, start, stop) ==
    LET len == Len(st.lists[key])
    IN SubSeq(st.lists[key], ListPos(len, start), Min(ListPos(len, stop), len))

\* A SETEX that sets the value and no time to live.
SETEXNoExpiry(st, key, seconds, value) == [st EXCEPT !.strs[key] = <<value>>]

\* SETEX key seconds value
SETEX(st, key, seconds, value) ==
    [st EXCEPT !.strs[key] = <<value>>, !.ttl[key] = now + seconds]

\* PUBLISH channel payload: the payload is pushed to every connection that
\* is subscribed to the channel; the reply is their number.
PUBLISH(st, channel, payload) ==
    LET own == channel \in st.subs
        n == (IF own THEN 1 ELSE 0) + (IF channel \in st.others THEN 1 ELSE 0)
        pushed == [Channel |-> channel, Data |-> payload]
    IN [st |-> [st EXCEPT !.inq = IF own THEN Append(@, pushed) ELSE @,
                          !.applied = Append(@, pushed)],
        reply |-> n]

\* A set as a list, in the order the store happens to reply in.
RECURSIVE SeqOf(_)
SeqOf(S) ==
    IF S = {} THEN <<>>
    ELSE LET x == CHOOSE y \in S : TRUE IN <<x>> \o SeqOf(S \ {x})

\* "*"
Star == 42

\* The glob patterns of the model: a literal, or a literal followed by "*".
Match(s, pattern) ==
    IF pattern # <<>> /\ pattern[Len(pattern)] = Star
    THEN /\ Len(s) >= Len(pattern) - 1
         /\ SubSeq(s, 1, Len(pattern) - 1) = SubSeq(pattern, 1, Len(pattern) - 1)
    ELSE s = pattern

\* PUBSUB CHANNELS pattern: the channels with at least one subscriber that
\* match the pattern, each once.
PUBSUB(st, subcommand, pattern) ==
    IF subcommand = "CHANNELS"
    THEN SeqOf({c \in st.subs \cup st.others : Match(c, pattern)})
    ELSE <<>>

\* The keys whose deadline has passed at time t are gone.
RECURSIVE ExpireKeys(_, _, _)
ExpireKeys(st, keys, t) ==
    IF keys = {} THEN st
    ELSE LET k == CHOOSE x \in keys : TRUE
             st1 == IF st.ttl[k] # NoTTL /\ st.ttl[k] <= t THEN DelKey(st, k) ELSE st
         IN ExpireKeys(st1, keys \ {k}, t)

(***************************************************************************)
(* The scripts                                                             *)
(***************************************************************************)
\* How the client library writes a bool argument.
BoolArg(b) == IF b THEN "1" ELSE "0"

\* A script that pushes to the history list whether or not the channel is active.
pubScriptSourceAlwaysPush(st, KEYS, ARGV) ==
    LET p == PUBLISH(st, ARGV[1], ARGV[2])
        l == LPUSH(p.st, KEYS[1], ARGV[2])
        s1 == IF l.reply > 0
              THEN EXPIRE(LTRIM(l.st, KEYS[1], 0, ARGV[3]), KEYS[1], ARGV[4])
              ELSE l.st
    IN [st |-> s1, reply |-> p.reply]

\* A script that pushes to the tail of the history list.
pubScriptSourceTailPush(st, KEYS, ARGV) ==
    LET p == PUBLISH(st, ARGV[1], ARGV[2])
        skip == ARGV[5] = "1" /\ p.reply = 0 /\ EXISTS(p.st, KEYS[2]) = 0
        l == IF skip /\ ~Exists(p.st, KEYS[1])
             THEN [st |-> p.st, reply |-> 0]
             ELSE [st |-> [p.st EXCEPT !.lists[KEYS[1]] = Append(@, ARGV[2])],
                   reply |-> Len(p.st.lists[KEYS[1]]) + 1]
        s1 == IF l.reply > 0
              THEN EXPIRE(LTRIM(l.st, KEYS[1], 0, ARGV[3]), KEYS[1], ARGV[4])
              ELSE l.st
    IN [st |-> s1, reply |-> p.reply]

\* KEYS[1] history list, KEYS[2] history touch key;
\* ARGV[1] channel, ARGV[2] message, ARGV[3] history size,
\* ARGV[4] history lifetime, ARGV[5] history drop inactive
pubScriptSource(st, KEYS, ARGV) ==
    LET p == PUBLISH(st, ARGV[1], ARGV[2])
        l == IF ARGV[5] = "1" /\ p.reply = 0 /\ EXISTS(p.st, KEYS[2]) = 0
             THEN LPUSHX(p.st, KEYS[1], ARGV[2])
             ELSE LPUSH(p.st, KEYS[1], ARGV[2])
        s1 == IF l.reply > 0
              THEN EXPIRE(LTRIM(l.st, KEYS[1], 0, ARGV[3]), KEYS[1], ARGV[4])
              ELSE l.st
    IN [st |-> s1, reply |-> p.reply]

RECURSIVE HdelAll(_, _, _)
HdelAll(st, key, members) ==
    IF members = {} THEN st
    ELSE LET m == CHOOSE x \in members : TRUE
         IN HdelAll(HDEL(st, key, m), key, members \ {m})

\* An add that leaves the expiry of the hash as it was.
addPresenceSourceSetExpire(st, KEYS, ARGV) ==
    LET s1 == ZADD(st, KEYS[1], ARGV[2], ARGV[3])
        s2 == HSET(s1, KEYS[2], ARGV[3], ARGV[4])
        s3 == EXPIRE(s2, KEYS[1], ARGV[1])
    IN [st |-> s3, reply |-> <<>>]

\* KEYS[1] presence set, KEYS[2] presence hash;
\* ARGV[1] key expire seconds, ARGV[2] expire at, ARGV[3] uid, ARGV[4] info
addPresenceSource(st, KEYS, ARGV) ==
    LET s1 == ZADD(st, KEYS[1], ARGV[2], ARGV[3])
        s2 == HSET(s1, KEYS[2], ARGV[3], ARGV[4])
        s3 == EXPIRE(s2, KEYS[1], ARGV[1])
        s4 == EXPIRE(s3, KEYS[2], ARGV[1])
    IN [st |-> s4, reply |-> <<>>]

\* A removal that forgets the sorted set.
remPresenceSourceHashOnly(st, KEYS, ARGV) ==
    [st |-> HDEL(st, KEYS[2], ARGV[1]), reply |-> <<>>]

\* KEYS[1] presence set, KEYS[2] presence hash; ARGV[1] uid
remPresenceSource(st, KEYS, ARGV) ==
    LET s1 == HDEL(st, KEYS[2], ARGV[1])
        s2 == ZREM(s1, KEYS[1], ARGV[1])
    IN [st |-> s2, reply |-> <<>>]

\* A read that sweeps only the UIDs that expired strictly before now.
presenceSourceStrict(st, KEYS, ARGV) ==
    LET expired == ZRANGEBYSCORE(st, KEYS[1], 0, ARGV[1] - 1)
        s1 == IF expired # {}
              THEN ZREMRANGEBYSCORE(HdelAll(st, KEYS[2], expired), KEYS[1], 0, ARGV[1] - 1)
              ELSE st
    IN [st |-> s1, reply |-> HGETALL(s1, KEYS[2])]

\* KEYS[1] presence set, KEYS[2] presence hash; ARGV[1] now
presenceSource(st, KEYS, ARGV) ==
    LET expired == ZRANGEBYSCORE(st, KEYS[1], 0, ARGV[1])
        s1 == IF expired # {}
              THEN ZREMRANGEBYSCORE(HdelAll(st, KEYS[2], expired), KEYS[1], 0, ARGV[1])
              ELSE st
    IN [st |-> s1, reply |-> HGETALL(s1, KEYS[2])]

(***************************************************************************)
(* Encodings.  ClientInfo.Marshal, mapStringClientInfo, the message        *)
(* constructors, their encoders and sliceOfMessages are defined outside    *)
(* engine.go.                                                              *)
(***************************************************************************)
Marshal(info) == <<"json", info>>
Unmarshal(bytes) == bytes[2]

\* The flat HGETALL reply as a map from UID to client info.
mapStringClientInfo(reply) ==
    [u \in {reply[2 * i - 1] : i \in 1..(Len(reply) \div 2)} |->
        LET i == CHOOSE j \in 1..(Len(reply) \div 2) : reply[2 * j - 1] = u
        IN Unmarshal(reply[2 * i])]

\* The publication number id of the run.
Publication(id) == [UID |-> id]
EncodePublication(pub) == <<"publication", pub>>
DecodePublication(bytes) == bytes[2]
NewPublicationMessage(ch, data) == [Type |-> "publication", Channel |-> ch, Data |-> data]
EncodeMessage(msg) == <<"message", msg>>
DecodeMessage(bytes) == bytes[2]
\* A control command and its encoding.
Command(id) == [UID |-> id]
EncodeCommand(cmd) == <<"command", cmd>>
DecodeCommand(bytes) == bytes[2]
\* message.Unmarshal(data) returns no error: the bytes are an encoded message,
\* or there are none (the encoding of the message with no field set).
MessageDecodes(bytes) == bytes = <<>> \/ (Len(bytes) = 2 /\ bytes[1] = "message")
\* ControlDecoder().DecodeCommand(data) returns no error.
CommandDecodes(bytes) == bytes = <<>> \/ (Len(bytes) = 2 /\ bytes[1] = "command")

\* The LRANGE reply as publications.
sliceOfMessages(reply) ==
    [i \in 1..Len(reply) |-> DecodePublication(DecodeMessage(reply[i]).Data)]

(***************************************************************************)
(* Engine facade                                                           *)
(***************************************************************************)
\* New: one shard per configured ShardConfig, sharding iff more than one.
RouteInit ==
    /\ shards \in 1..MaxShards
    /\ sharding = (shards > 1)
    /\ routed = [c \in RouteChannels |-> {}]
    /\ ctlRouted = {}
    /\ lastCall = [op |-> "New", ch |-> NoChannel, shard |-> 0]
    /\ prevCall = [op |-> "New", ch |-> NoChannel, shard |-> 0]

shardIndex(channel) ==
    IF ~sharding THEN 0 ELSE consistentIndex(channel, shards)

\* e.shards[i].<op>(ch, ...): the operation is handed to shard i.
HandTo(op, ch, i) ==
    /\ i \in 0..(shards - 1)
    /\ routed' = [routed EXCEPT ![ch] = @ \cup {i}]
    /\ lastCall' = [op |-> op, ch |-> ch, shard |-> i]
    /\ prevCall' = lastCall
    /\ UNCHANGED <<shards, sharding, ctlRouted>>
    /\ UNCHANGED shardVars
    /\ UNCHANGED extVars

EnginePublish == \E ch \in RouteChannels : HandTo("Publish", ch, shardIndex(ch))
EnginePublishJoin == \E ch \in RouteChannels : HandTo("PublishJoin", ch, shardIndex(ch))
EnginePublishLeave == \E ch \in RouteChannels : HandTo("PublishLeave", ch, shardIndex(ch))
EngineSubscribe == \E ch \in RouteChannels : HandTo("Subscribe", ch, shardIndex(ch))
EngineUnsubscribe == \E ch \in RouteChannels : HandTo("Unsubscribe", ch, shardIndex(ch))
EngineAddPresence == \E ch \in RouteChannels : HandTo("AddPresence", ch, shardIndex(ch))
EngineRemovePresence == \E ch \in RouteChannels : HandTo("RemovePresence", ch, shardIndex(ch))
EnginePresence == \E ch \in RouteChannels : HandTo("Presence", ch, shardIndex(ch))
EngineHistory == \E ch \in RouteChannels : HandTo("History", ch, shardIndex(ch))
\* A RemoveHistory that always goes to the first shard.
EngineRemoveHistoryFirstShard == \E ch \in RouteChannels : HandTo("RemoveHistory", ch, 0)
EngineRemoveHistory == \E ch \in RouteChannels : HandTo("RemoveHistory", ch, shardIndex(ch))

EnginePublishControl ==
    /\ ctlRouted' = ctlRouted \cup {0}
    /\ lastCall' = [op |-> "PublishControl", ch |-> NoChannel, shard |-> 0]
    /\ prevCall' = lastCall
    /\ UNCHANGED <<shards, sharding, routed>>
    /\ UNCHANGED shardVars
    /\ UNCHANGED extVars

RouteNext0 ==
    \/ EnginePublish
    \/ EnginePublishJoin
    \/ EnginePublishLeave
    \/ EnginePublishControl
    \/ EngineSubscribe
    \/ EngineUnsubscribe
    \/ EngineAddPresence
    \/ EngineRemovePresence
    \/ EnginePresence
    \/ EngineHistory
    \/ EngineRemoveHistory

(***************************************************************************)
(* Requests and replies                                                    *)
(***************************************************************************)
dataOpAddPresence == 0
dataOpRemovePresence == 1
dataOpPresence == 2
dataOpHistory == 3
dataOpChannels == 4
dataOpHistoryTouch == 5

Nil == "nil"
FlushError == "flush error"
\* What conn.Receive() returns when the connection broke or timed out.
ReadError == "read error"
\* The store's error reply to EVALSHA for a script that is not in its cache.
NoScript == "NOSCRIPT"

\* newDataRequest(op, args, true), with the task that waits on its resp channel,
\* the logical channel it is about, the second of the call and, for a
\* History, the limit it was called with.
newDataRequest(op, args, owner, ch) ==
    [op |-> op, args |-> args, owner |-> owner, ch |-> ch, at |-> now, input |-> <<>>]

\* newSubRequest(chIDs, subscribe, true), with who waits on its err channel.
newSubRequest(chIDs, subscribe, owner) ==
    [channels |-> chIDs, subscribe |-> subscribe, owner |-> owner]

\* A *channel.Options is nil or points to the options.
NilOpts == <<>>
OptsPtr(o) == <<o>>

\* What a call returned; touch is how the touch request of an Unsubscribe was
\* answered, which the call itself drops.
NoReturn == [op |-> "none", ch |-> NoChannel, err |-> Nil, val |-> <<>>, after |-> <<>>,
             swept |-> {}, touch |-> "none"]
NoExec == [op |-> -1, args |-> <<>>, ch |-> NoChannel, at |-> 0]
\* For every UID of a channel the expire-at of the AddPresence with a
\* positive expire that the store ran last for it, 0 if there was none or if
\* the store ran a RemovePresence or an AddPresence without a positive expire
\* for the UID since.  It is kept where "on" is set.
NoLease == [on |-> FALSE, at |-> [c \in Channels |-> [u \in UIDs |-> 0]]]
NoSub == [ch |-> NoChannel, subscribe |-> FALSE, res |-> "none", touch |-> "none"]
NoPub == [id |-> 0, at |-> 0, n |-> 0, touch |-> FALSE, list |-> FALSE]
\* What is known of a publication: the channel and whether it was called
\* after a Subscribe of the channel returned, what became of it, how often
\* it was answered, whether the publish channel was full at the call, and,
\* if the last call of its task was an Unsubscribe of the channel, how the
\* touch request of that Unsubscribe was answered.
NoInfo == [ch |-> NoChannel, afterSub |-> FALSE, fate |-> "none", done |-> 0,
           full |-> FALSE, touch |-> "none"]
NoLanes == [i \in 0..(NumWorkers - 1) |-> <<>>]
NoRequest == <<>>
\* A connection taken from the pool for a batch: no error yet.
NoConn == [err |-> Nil, noScriptError |-> FALSE]
\* The scripts the pipelines load at entry.
PubScripts == {"pubScript"}
DataScripts == {"addPresenceScript", "presenceScript", "remPresenceScript"}
\* What is known of a runPubSub invocation: its number, the channel IDs it
\* listed at startup, the initial requests that were made without error, the
\* messages its receiver got and the messages the workers took, in order.
\* The log is kept where "on" is set.
NoLog == [on |-> FALSE, gen |-> 0, list |-> <<>>, sent |-> <<>>, recv |-> <<>>,
          work |-> <<>>, control |-> <<>>]
\* The log after the change to, if it is kept.
Log(to) == IF psLog.on THEN to ELSE psLog
\* The times of the shard in units of the ping interval, ReadTimeout / 3:
\* timer is the time since the publish pipeline entered its select, ping the
\* time since it published its last ping (or started), idle the time since
\* the receiver called conn.Receive().  They are kept where "on" is set.
NoPace == [on |-> FALSE, timer |-> 0, ping |-> 0, idle |-> 0]
\* The times after the change to, if they are kept.
Paced(to) == IF pace.on THEN to ELSE pace
\* No Channels call is under way.
NoCall == [pc |-> "off", shard |-> 0, channelMap |-> {}, stable |-> TRUE]

\* A shard after NewShard and Run.  With started = FALSE its goroutines have
\* not made a step yet; with started = TRUE the pipelines have loaded their
\* scripts and runPubSub has subscribed to the control and ping channels, no
\* channel being in the hub.
ShardLeased(started, logging, paced, leased) ==
    /\ lease = [NoLease EXCEPT !.on = leased]
    /\ now = 1
    /\ store = IF started
               THEN [EmptyStore EXCEPT !.subs = {controlChannelID, pingChannelID},
                                       !.scripts = PubScripts \cup DataScripts]
               ELSE EmptyStore
    /\ hub = {}
    /\ tret = [t \in Tasks |-> NoReturn]
    /\ tsub = [t \in Tasks |-> NoSub]
    /\ dataCh = <<>>
    /\ dataPc = IF started THEN "idle" ELSE "start"
    /\ drs = <<>>
    /\ dataI = 1
    /\ pubCh = <<>>
    /\ pubPc = IF started THEN "idle" ELSE "start"
    /\ prs = <<>>
    /\ pubI = 1
    /\ pubRes = [m \in 1..MaxMsgs |-> "none"]
    /\ nextMsg = 1
    /\ subCh = <<>>
    /\ psPc = IF started THEN "recv" ELSE "start"
    /\ connOpen = started
    /\ subscriber = IF started THEN "run" ELSE "none"
    /\ subOut = <<>>
    /\ initLeft = <<>>
    /\ initWait = FALSE
    /\ lanes = NoLanes
    /\ zlanes = <<>>
    /\ handled = <<>>
    /\ failures = 0
    /\ prevExec = NoExec
    /\ removed = [c \in Channels |-> [u \in UIDs |-> "never"]]
    /\ lastPub = [c \in Channels |-> NoPub]
    /\ subOK = {}
    /\ pubInfo = [m \in 1..MaxMsgs |-> NoInfo]
    /\ tpub = [t \in Tasks |-> NoRequest]
    /\ pubConn = NoConn
    /\ dataConn = NoConn
    /\ psLog = IF logging /\ started
               THEN [NoLog EXCEPT !.on = TRUE, !.gen = 1,
                                  !.list = <<controlChannelID, pingChannelID>>,
                                  !.sent = <<<<controlChannelID, pingChannelID>>>>]
               ELSE [NoLog EXCEPT !.on = logging]
    /\ zsub = 0
    /\ shutdown = FALSE
    /\ pace = [NoPace EXCEPT !.on = paced]

ShardPaced(started, logging, paced) == ShardLeased(started, logging, paced, FALSE)
ShardWith(started, logging) == ShardPaced(started, logging, FALSE)

\* The specifications in which Channels is not called.
NoChannelsCall ==
    /\ shardSubs = [i \in 0..(MaxShards - 1) |-> {}]
    /\ chanCall = NoCall

ShardAt(started) == ShardWith(started, FALSE)

ShardInit == ShardAt(FALSE)
ShardRunning == ShardAt(TRUE)

\* An engine with a single shard, for the specifications of one shard.
OneShard ==
    /\ shards = 1
    /\ sharding = FALSE
    /\ routed = [c \in RouteChannels |-> {}]
    /\ ctlRouted = {}
    /\ lastCall = [op |-> "New", ch |-> NoChannel, shard |-> 0]
    /\ prevCall = [op |-> "New", ch |-> NoChannel, shard |-> 0]
    /\ NoChannelsCall

(***************************************************************************)
(* Shard operations on the data pipeline                                   *)
(***************************************************************************)
\* e.dataCh <- dr, then dr.result(): the task waits for the reply.  What its
\* last call returned is forgotten.
SendData(t, dr) ==
    /\ tpc[t] = "idle"
    /\ Len(dataCh) < DataChannelCap
    /\ dataCh' = Append(dataCh, dr)
    /\ tpc' = [tpc EXCEPT ![t] = "wait"]
    /\ tret' = [tret EXCEPT ![t] = NoReturn]
    /\ UNCHANGED <<tsub, dataPc, drs, dataI>>
    /\ UNCHANGED <<routeVars, extVars, now, store, envVars, pubVars, psVars, presGhost, pubGhost>>

\* An AddPresence that takes the expire seconds for the expiry timestamp.
AddPresenceNoClock(t, ch, uid, info, expire) ==
    LET infoJSON == Marshal(info)
        expireAt == expire
        hashKey == getPresenceHashKey(ch)
        setKey == getPresenceSetKey(ch)
    IN SendData(t, newDataRequest(dataOpAddPresence,
                  <<setKey, hashKey, expire, expireAt, uid, infoJSON>>, t, ch))

AddPresence(t, ch, uid, info, expire) ==
    LET infoJSON == Marshal(info)
        expireAt == now + expire
        hashKey == getPresenceHashKey(ch)
        setKey == getPresenceSetKey(ch)
    IN SendData(t, newDataRequest(dataOpAddPresence,
                  <<setKey, hashKey, expire, expireAt, uid, infoJSON>>, t, ch))

RemovePresence(t, ch, uid) ==
    LET hashKey == getPresenceHashKey(ch)
        setKey == getPresenceSetKey(ch)
    IN SendData(t, newDataRequest(dataOpRemovePresence, <<setKey, hashKey, uid>>, t, ch))

Presence(t, ch) ==
    LET hashKey == getPresenceHashKey(ch)
        setKey == getPresenceSetKey(ch)
    IN SendData(t, newDataRequest(dataOpPresence, <<setKey, hashKey, now>>, t, ch))

\* A History that takes the limit itself for the last index of the range.
HistoryLimitAsBound(t, ch, limit) ==
    LET rangeBound == IF limit > 0 THEN limit ELSE -1
        historyKey == getHistoryKey(ch)
    IN SendData(t, [newDataRequest(dataOpHistory, <<historyKey, 0, rangeBound>>, t, ch)
                       EXCEPT !.input = <<limit>>])

History(t, ch, limit) ==
    LET rangeBound == IF limit > 0 THEN limit - 1 ELSE -1
        historyKey == getHistoryKey(ch)
    IN SendData(t, [newDataRequest(dataOpHistory, <<historyKey, 0, rangeBound>>, t, ch)
                       EXCEPT !.input = <<limit>>])

\* What the operation returns to its caller from the pipeline's reply.  "after"
\* and "swept" record the circumstances of a presence read: the add-presence
\* request executed just before it, and the UIDs the read took from the hash.
Return(dr, reply, err, after, swept) ==
    LET name == CASE dr.op = dataOpAddPresence -> "AddPresence"
                  [] dr.op = dataOpRemovePresence -> "RemovePresence"
                  [] dr.op = dataOpPresence -> "Presence"
                  [] dr.op = dataOpHistory -> "History"
                  [] dr.op = dataOpChannels -> "Channels"
                  [] OTHER -> "other"
    IN [op |-> name, ch |-> dr.ch, err |-> err,
        val |-> IF err # Nil THEN <<>>
                ELSE IF dr.op = dataOpPresence THEN mapStringClientInfo(reply)
                ELSE IF dr.op = dataOpHistory THEN sliceOfMessages(reply)
                ELSE IF dr.op = dataOpChannels
                THEN [i \in 1..Len(reply) |->
                        SubSeq(reply[i], Len(messagePrefix) + 1, Len(reply[i]))]
                ELSE <<>>,
        after |-> IF dr.op = dataOpPresence /\ after # NoExec THEN after.args ELSE <<>>,
        swept |-> swept, touch |-> "none"]

\* What Subscribe and Unsubscribe return: the result of their subscribe request.
ReturnSub(s, err) ==
    [op |-> IF s.subscribe THEN "Subscribe" ELSE "Unsubscribe",
     ch |-> s.ch, err |-> err, val |-> <<>>, after |-> <<>>, swept |-> {},
     touch |-> s.touch]

(***************************************************************************)
(* Shard operations on the publish pipeline and the subscriber             *)
(***************************************************************************)
\* Publish(ch, pub, opts) for the next publication of the run, with the
\* channel's options; the caller gets the reply channel and does not wait.
Publish(ch) ==
    /\ nextMsg <= MaxMsgs
    /\ Len(pubCh) < PublishChannelCap
    /\ LET opts == OptsPtr(chOpts[ch])
           data == EncodePublication(Publication(nextMsg))
           byteMessage == EncodeMessage(NewPublicationMessage(ch, data))
           chID == messageChannelID(ch)
           withHistory == opts # NilOpts /\ opts[1].HistorySize > 0
                          /\ opts[1].HistoryLifetime > 0
           pr == IF withHistory
                 THEN [channel |-> chID, message |-> byteMessage,
                       historyKey |-> getHistoryKey(ch),
                       touchKey |-> getHistoryTouchKey(ch),
                       opts |-> opts, err |-> nextMsg]
                 ELSE [channel |-> chID, message |-> byteMessage,
                       historyKey |-> <<>>, touchKey |-> <<>>,
                       opts |-> NilOpts, err |-> nextMsg]
       IN pubCh' = Append(pubCh, pr)
    /\ nextMsg' = nextMsg + 1
    /\ pubInfo' = [pubInfo EXCEPT ![nextMsg] =
                      [NoInfo EXCEPT !.ch = ch, !.afterSub = ch \in subOK,
                                     !.fate = "queued"]]
    /\ UNCHANGED <<pubPc, prs, pubI, pubRes, lastPub, subOK>>
    /\ UNCHANGED <<routeVars, extVars, now, store, envVars, taskVars, dataVars, psVars, presGhost>>

\* Subscribe(ch): the request is queued and the task waits for its result.
\* The node has put the channel into its hub before it calls the engine.
Subscribe(t, ch) ==
    /\ tpc[t] = "idle"
    /\ Len(subCh) < SubscribeChannelCap
    /\ subCh' = Append(subCh, newSubRequest(<<messageChannelID(ch)>>, TRUE, t))
    /\ tsub' = [tsub EXCEPT ![t] = [ch |-> ch, subscribe |-> TRUE, res |-> "none",
                                    touch |-> "none"]]
    /\ tpc' = [tpc EXCEPT ![t] = "subWait"]
    /\ tret' = [tret EXCEPT ![t] = NoReturn]
    /\ hub' = hub \cup {ch}
    /\ UNCHANGED <<chOpts, psPc, connOpen, subscriber, subOut, initLeft, initWait,
                   lanes, zlanes, handled, failures>>
    /\ UNCHANGED <<routeVars, extVars, now, store, dataVars, pubVars, presGhost, pubGhost>>

\* Unsubscribe(ch), up to the queueing of its request: with drop-inactive
\* history the task goes on to touch the channel, otherwise it waits for the
\* result.  The node has taken the channel out of its hub before.
Unsubscribe(t, ch) ==
    /\ tpc[t] = "idle"
    /\ Len(subCh) < SubscribeChannelCap
    /\ subCh' = Append(subCh, newSubRequest(<<messageChannelID(ch)>>, FALSE, t))
    /\ tsub' = [tsub EXCEPT ![t] = [ch |-> ch, subscribe |-> FALSE, res |-> "none",
                                    touch |-> "none"]]
    /\ tpc' = [tpc EXCEPT ![t] =
                  IF chOpts[ch].HistoryDropInactive THEN "unsubTouch" ELSE "subWait"]
    /\ tret' = [tret EXCEPT ![t] = NoReturn]
    /\ hub' = hub \ {ch}
    /\ subOK' = subOK \ {ch}
    /\ UNCHANGED <<chOpts, psPc, connOpen, subscriber, subOut, initLeft, initWait,
                   lanes, zlanes, handled, failures, lastPub, pubInfo>>
    /\ UNCHANGED <<routeVars, extVars, now, store, dataVars, pubVars, presGhost>>

\* An Unsubscribe that queues the touch request and does not wait for its
\* reply.
UnsubscribeTouchNoWait(t) ==
    /\ tpc[t] = "unsubTouch"
    /\ Len(dataCh) < DataChannelCap
    /\ LET ch == tsub[t].ch
       IN dataCh' = Append(dataCh, newDataRequest(dataOpHistoryTouch,
              <<getHistoryTouchKey(ch), chOpts[ch].HistoryLifetime, <<>>>>, t, ch))
    /\ IF tsub[t].res = "none"
       THEN /\ tpc' = [tpc EXCEPT ![t] = "unsubWait"]
            /\ UNCHANGED <<tret, tsub>>
       ELSE /\ tpc' = [tpc EXCEPT ![t] = "idle"]
            /\ tret' = [tret EXCEPT ![t] = ReturnSub(tsub[t], tsub[t].res)]
            /\ tsub' = [tsub EXCEPT ![t] = NoSub]
    /\ UNCHANGED <<dataPc, drs, dataI>>
    /\ UNCHANGED <<routeVars, extVars, now, store, envVars, pubVars, psVars, presGhost, pubGhost>>

\* Unsubscribe(ch), the touch: the request is queued and the task waits for
\* its reply.
UnsubscribeTouch(t) ==
    /\ tpc[t] = "unsubTouch"
    /\ Len(dataCh) < DataChannelCap
    /\ LET ch == tsub[t].ch
       IN dataCh' = Append(dataCh, newDataRequest(dataOpHistoryTouch,
              <<getHistoryTouchKey(ch), chOpts[ch].HistoryLifetime, <<>>>>, t, ch))
    /\ tpc' = [tpc EXCEPT ![t] = "unsubData"]
    /\ UNCHANGED <<tret, tsub, dataPc, drs, dataI>>
    /\ UNCHANGED <<routeVars, extVars, now, store, envVars, pubVars, psVars, presGhost, pubGhost>>

(***************************************************************************)
(* runDataPipeline                                                         *)
(***************************************************************************)
\* The three script loads at entry.
DataLoad ==
    /\ dataPc = "start"
    /\ dataPc' = "idle"
    /\ store' = [store EXCEPT !.scripts = @ \cup DataScripts]
    /\ UNCHANGED <<dataCh, drs, dataI>>
    /\ UNCHANGED <<routeVars, extVars, now, envVars, taskVars, pubVars, psVars,
                   presGhost, pubGhost>>

\* A script load fails: the pipeline returns.
DataLoadFail ==
    /\ dataPc = "start"
    /\ dataPc' = "exited"
    /\ UNCHANGED <<dataCh, drs, dataI>>
    /\ UNCHANGED <<routeVars, extVars, now, store, envVars, taskVars, pubVars, psVars,
                   presGhost, pubGhost>>

\* runForever, after its sleep: the shutdown channel is not closed, and the
\* pipeline that returned is started again.
DataRestart ==
    /\ dataPc = "exited"
    /\ ~shutdown
    /\ dataPc' = "start"
    /\ UNCHANGED <<dataCh, drs, dataI>>
    /\ UNCHANGED <<routeVars, extVars, now, store, envVars, taskVars, pubVars, psVars,
                   presGhost, pubGhost>>

\* dr := <-e.dataCh, fillDataBatch, the commands sent and flushed.
DataFill ==
    /\ dataPc = "idle"
    /\ dataCh # <<>>
    /\ LET n == Min(Len(dataCh), DataChannelCap)
       IN /\ drs' = SubSeq(dataCh, 1, n)
          /\ dataCh' = SubSeq(dataCh, n + 1, Len(dataCh))
    /\ dataPc' = "exec"
    /\ dataI' = 1
    /\ dataConn' = NoConn
    /\ UNCHANGED <<routeVars, dataExt, now, store, envVars, taskVars, pubVars, psVars,
                   presGhost, pubGhost>>

\* EVALSHA of a script: the store runs it if it is in its cache; res is what
\* running it gives.
EVALSHA(st, script, res) ==
    IF script \in st.scripts
    THEN [st |-> res.st, reply |-> res.reply, err |-> Nil]
    ELSE [st |-> st, reply |-> <<>>, err |-> NoScript]

\* The script or command of a data request, run by the store.
ExecData(st, dr) ==
    CASE dr.op = dataOpAddPresence ->
            EVALSHA(st, "addPresenceScript",
                addPresenceSource(st, SubSeq(dr.args, 1, 2), SubSeq(dr.args, 3, Len(dr.args))))
      [] dr.op = dataOpRemovePresence ->
            EVALSHA(st, "remPresenceScript",
                remPresenceSource(st, SubSeq(dr.args, 1, 2), SubSeq(dr.args, 3, Len(dr.args))))
      [] dr.op = dataOpPresence ->
            EVALSHA(st, "presenceScript",
                presenceSource(st, SubSeq(dr.args, 1, 2), SubSeq(dr.args, 3, Len(dr.args))))
      [] dr.op = dataOpHistory ->
            [st |-> st, reply |-> LRANGE(st, dr.args[1], dr.args[2], dr.args[3]), err |-> Nil]
      [] dr.op = dataOpChannels ->
            [st |-> st, reply |-> PUBSUB(st, dr.args[1], dr.args[2]), err |-> Nil]
      [] dr.op = dataOpHistoryTouch ->
            [st |-> SETEX(st, dr.args[1], dr.args[2], dr.args[3]), reply |-> <<>>, err |-> Nil]
      [] OTHER -> [st |-> st, reply |-> <<>>, err |-> Nil]

\* drs[i].done(reply, err) as the task that waits for it sees it: it
\* returns, or, in Unsubscribe, it waits for the result of its subscribe
\* request if that has not come yet (the reply to the touch is dropped), or,
\* in Channels, it goes on with the engine's loop over the shards.
AfterData(dr, reply, err, after, swept) ==
    LET t == dr.owner
    IN IF dr.op = dataOpHistoryTouch
       THEN IF tsub[t].res = "none"
            THEN [pc |-> "unsubWait", ret |-> tret[t],
                  sub |-> [tsub[t] EXCEPT !.touch = err]]
            ELSE [pc |-> "idle",
                  ret |-> ReturnSub([tsub[t] EXCEPT !.touch = err], tsub[t].res),
                  sub |-> NoSub]
       ELSE [pc |-> IF dr.op = dataOpChannels THEN "chanNext" ELSE "idle",
             ret |-> Return(dr, reply, err, after, swept),
             sub |-> tsub[t]]

\* The end of the loop over the replies: after the last request of the batch
\* conn.Close(), and the pipeline returns if there was a NOSCRIPT reply and
\* goes on with drs = nil otherwise.
DataBatchEnd(err, noScriptError) ==
    IF dataI < Len(drs)
    THEN /\ dataI' = dataI + 1
         /\ dataConn' = [err |-> err, noScriptError |-> noScriptError]
         /\ UNCHANGED <<dataPc, drs>>
    ELSE /\ dataI' = 1
         /\ drs' = <<>>
         /\ dataConn' = NoConn
         /\ dataPc' = IF noScriptError THEN "exited" ELSE "idle"

\* What the presence ghosts record of the request the store ran.
DataGhost(dr, ran) ==
    /\ prevExec' = IF ran /\ dr.op = dataOpAddPresence
                   THEN [op |-> dr.op, args |-> dr.args, ch |-> dr.ch, at |-> dr.at]
                   ELSE NoExec
    /\ removed' =
         CASE ran /\ dr.op = dataOpAddPresence ->
                [removed EXCEPT ![dr.ch][dr.args[5]] = "added"]
           [] ran /\ dr.op = dataOpRemovePresence ->
                [removed EXCEPT ![dr.ch][dr.args[3]] =
                    IF @ = "never" THEN "never" ELSE "removed"]
           [] OTHER -> removed
    /\ lease' =
         CASE lease.on /\ ran /\ dr.op = dataOpAddPresence ->
                [lease EXCEPT !.at[dr.ch][dr.args[5]] =
                    IF dr.args[3] > 0 THEN dr.args[4] ELSE 0]
           [] lease.on /\ ran /\ dr.op = dataOpRemovePresence ->
                [lease EXCEPT !.at[dr.ch][dr.args[3]] = 0]
           [] OTHER -> lease

\* reply, err := conn.Receive(); drs[i].done(reply, err) on a connection
\* without error: the reply is the store's.
DataExec ==
    /\ dataPc = "exec"
    /\ dataI <= Len(drs)
    /\ dataConn.err = Nil
    /\ LET dr == drs[dataI]
           t == dr.owner
           res == ExecData(store, dr)
           swept == IF dr.op = dataOpPresence
                    THEN (DOMAIN store.hashes[dr.args[2]])
                            \ (DOMAIN res.st.hashes[dr.args[2]])
                    ELSE {}
           a == AfterData(dr, res.reply, res.err, prevExec, swept)
       IN /\ store' = res.st
          /\ tpc' = [tpc EXCEPT ![t] = a.pc]
          /\ tret' = [tret EXCEPT ![t] = a.ret]
          /\ tsub' = [tsub EXCEPT ![t] = a.sub]
          /\ DataGhost(dr, res.err = Nil)
          /\ DataBatchEnd(Nil, dataConn.noScriptError \/ res.err = NoScript)
    /\ UNCHANGED dataCh
    /\ UNCHANGED <<routeVars, dataExt, now, envVars, pubVars, psVars, pubGhost>>

\* conn.Receive() fails, at this request or because it failed before in the
\* batch: the request gets the error.  The store may have run its command.
DataExecFail ==
    /\ dataPc = "exec"
    /\ dataI <= Len(drs)
    /\ \E ran \in BOOLEAN :
          LET dr == drs[dataI]
              t == dr.owner
              res == ExecData(store, dr)
              a == AfterData(dr, <<>>, ReadError, NoExec, {})
          IN /\ store' = IF ran THEN res.st ELSE store
             /\ tpc' = [tpc EXCEPT ![t] = a.pc]
             /\ tret' = [tret EXCEPT ![t] = a.ret]
             /\ tsub' = [tsub EXCEPT ![t] = a.sub]
             /\ DataGhost(dr, ran /\ res.err = Nil)
    /\ DataBatchEnd(ReadError, dataConn.noScriptError)
    /\ UNCHANGED dataCh
    /\ UNCHANGED <<routeVars, dataExt, now, envVars, pubVars, psVars, pubGhost>>

\* A flush failure after which only the first request of the batch is answered.
DataFlushFailFirstOnly ==
    /\ dataPc = "idle"
    /\ dataCh # <<>>
    /\ LET n == Min(Len(dataCh), DataChannelCap)
           batch == SubSeq(dataCh, 1, n)
           Of(t) == CHOOSE i \in 1..n : batch[i].owner = t
           Hit(t) == batch[1].owner = t
           A(t) == AfterData(batch[Of(t)], <<>>, FlushError, NoExec, {})
       IN /\ dataCh' = SubSeq(dataCh, n + 1, Len(dataCh))
          /\ tpc' = [t \in Tasks |-> IF Hit(t) THEN A(t).pc ELSE tpc[t]]
          /\ tret' = [t \in Tasks |-> IF Hit(t) THEN A(t).ret ELSE tret[t]]
          /\ tsub' = [t \in Tasks |-> IF Hit(t) THEN A(t).sub ELSE tsub[t]]
    /\ dataPc' = "exited"
    /\ prevExec' = NoExec
    /\ UNCHANGED <<drs, dataI, removed, lease>>
    /\ UNCHANGED <<routeVars, extVars, now, store, envVars, pubVars, psVars, pubGhost>>

\* dr := <-e.dataCh, fillDataBatch, but conn.Flush() fails: every request
\* of the batch gets the error and the pipeline returns.
DataFlushFail ==
    /\ dataPc = "idle"
    /\ dataCh # <<>>
    /\ LET n == Min(Len(dataCh), DataChannelCap)
           batch == SubSeq(dataCh, 1, n)
           Of(t) == CHOOSE i \in 1..n : batch[i].owner = t
           Hit(t) == \E i \in 1..n : batch[i].owner = t
           A(t) == AfterData(batch[Of(t)], <<>>, FlushError, NoExec, {})
       IN /\ dataCh' = SubSeq(dataCh, n + 1, Len(dataCh))
          /\ tpc' = [t \in Tasks |-> IF Hit(t) THEN A(t).pc ELSE tpc[t]]
          /\ tret' = [t \in Tasks |-> IF Hit(t) THEN A(t).ret ELSE tret[t]]
          /\ tsub' = [t \in Tasks |-> IF Hit(t) THEN A(t).sub ELSE tsub[t]]
    /\ dataPc' = "exited"
    /\ prevExec' = NoExec
    /\ UNCHANGED <<drs, dataI, removed, lease>>
    /\ UNCHANGED <<routeVars, extVars, now, store, envVars, pubVars, psVars, pubGhost>>

(***************************************************************************)
(* runPublishPipeline                                                      *)
(***************************************************************************)
\* The script load at entry.
PubLoad ==
    /\ pubPc = "start"
    /\ pubPc' = "idle"
    /\ store' = [store EXCEPT !.scripts = @ \cup PubScripts]
    /\ pace' = Paced([pace EXCEPT !.timer = 0, !.ping = 0])
    /\ UNCHANGED <<pubCh, prs, pubI, pubRes, nextMsg>>
    /\ UNCHANGED <<routeVars, extVars0, now, envVars, taskVars, dataVars, psVars,
                   presGhost, pubGhost>>

\* The script load fails: the pipeline returns.
PubLoadFail ==
    /\ pubPc = "start"
    /\ pubPc' = "exited"
    /\ UNCHANGED <<pubCh, prs, pubI, pubRes, nextMsg>>
    /\ UNCHANGED <<routeVars, extVars, now, store, envVars, taskVars, dataVars, psVars,
                   presGhost, pubGhost>>

\* pr := <-e.pubCh, fillPublishBatch, the commands sent and flushed.
PubFill ==
    /\ pubPc = "idle"
    /\ pubCh # <<>>
    /\ LET n == Min(Len(pubCh), PublishBatchLimit)
       IN /\ prs' = SubSeq(pubCh, 1, n)
          /\ pubCh' = SubSeq(pubCh, n + 1, Len(pubCh))
    /\ pubPc' = "exec"
    /\ pubI' = 1
    /\ pubConn' = NoConn
    /\ UNCHANGED <<pubRes, nextMsg>>
    /\ UNCHANGED <<routeVars, pubExt, now, store, envVars, taskVars, dataVars, psVars,
                   presGhost, pubGhost>>

\* A flush failure after which only the first request of the batch is answered.
PubFlushFailFirstOnly ==
    /\ pubPc = "idle"
    /\ pubCh # <<>>
    /\ LET n == Min(Len(pubCh), PublishBatchLimit)
           ids == {pubCh[1].err}
       IN /\ pubCh' = SubSeq(pubCh, n + 1, Len(pubCh))
          /\ pubRes' = [m \in 1..MaxMsgs |-> IF m \in ids THEN FlushError ELSE pubRes[m]]
          /\ pubInfo' = [m \in 1..MaxMsgs |->
                IF m \in ids
                THEN [pubInfo[m] EXCEPT !.fate = "failed", !.done = @ + 1]
                ELSE pubInfo[m]]
    /\ pubPc' = "exited"
    /\ UNCHANGED <<prs, pubI, nextMsg, lastPub, subOK>>
    /\ UNCHANGED <<routeVars, extVars, now, store, envVars, taskVars, dataVars, psVars,
                   presGhost>>

\* The same, but conn.Flush() fails: every request of the batch gets the
\* error and the pipeline returns.
PubFlushFail ==
    /\ pubPc = "idle"
    /\ pubCh # <<>>
    /\ LET n == Min(Len(pubCh), PublishBatchLimit)
           ids == {pubCh[i].err : i \in 1..n}
       IN /\ pubCh' = SubSeq(pubCh, n + 1, Len(pubCh))
          /\ pubRes' = [m \in 1..MaxMsgs |-> IF m \in ids THEN FlushError ELSE pubRes[m]]
          /\ pubInfo' = [m \in 1..MaxMsgs |->
                IF m \in ids
                THEN [pubInfo[m] EXCEPT !.fate = "failed", !.done = @ + 1]
                ELSE pubInfo[m]]
    /\ pubPc' = "exited"
    /\ UNCHANGED <<prs, pubI, nextMsg, lastPub, subOK>>
    /\ UNCHANGED <<routeVars, extVars, now, store, envVars, taskVars, dataVars, psVars,
                   presGhost>>

\* The command of a publish request, run by the store: the script for a
\* request with history, a plain PUBLISH otherwise.
ExecPub(st, pr) ==
    IF pr.opts # NilOpts /\ pr.opts[1].HistorySize > 0 /\ pr.opts[1].HistoryLifetime > 0
    THEN EVALSHA(st, "pubScript",
             pubScriptSource(st, <<pr.historyKey, pr.touchKey>>,
                 <<pr.channel, pr.message, pr.opts[1].HistorySize,
                   pr.opts[1].HistoryLifetime, BoolArg(pr.opts[1].HistoryDropInactive)>>))
    ELSE LET r == PUBLISH(st, pr.channel, pr.message)
         IN [st |-> r.st, reply |-> r.reply, err |-> Nil]

\* An end of the loop over the replies that goes on after a NOSCRIPT reply.
PubBatchEndNoExit(err, noScriptError) ==
    IF pubI < Len(prs)
    THEN /\ pubI' = pubI + 1
         /\ pubConn' = [err |-> err, noScriptError |-> noScriptError]
         /\ UNCHANGED <<pubPc, prs, pace>>
    ELSE /\ pubI' = 1
         /\ prs' = <<>>
         /\ pubConn' = NoConn
         /\ pubPc' = "idle"
         /\ pace' = Paced([pace EXCEPT !.timer = 0])

\* The end of the loop over the replies: after the last request of the batch
\* conn.Close(), and the pipeline returns if there was a NOSCRIPT reply and
\* goes on with prs = nil otherwise: it enters its select again, with a new
\* timer.
PubBatchEnd(err, noScriptError) ==
    IF pubI < Len(prs)
    THEN /\ pubI' = pubI + 1
         /\ pubConn' = [err |-> err, noScriptError |-> noScriptError]
         /\ UNCHANGED <<pubPc, prs, pace>>
    ELSE /\ pubI' = 1
         /\ prs' = <<>>
         /\ pubConn' = NoConn
         /\ pubPc' = IF noScriptError THEN "exited" ELSE "idle"
         /\ pace' = Paced([pace EXCEPT !.timer = 0])

\* A failed read of a reply after which the connection reads on.
PubExecFailForgets ==
    /\ pubPc = "exec"
    /\ pubI <= Len(prs)
    /\ pubRes' = [pubRes EXCEPT ![prs[pubI].err] = ReadError]
    /\ pubInfo' = [pubInfo EXCEPT ![prs[pubI].err].fate = "readfail",
                                  ![prs[pubI].err].done = @ + 1]
    /\ PubBatchEnd(Nil, pubConn.noScriptError)
    /\ UNCHANGED <<pubCh, nextMsg, subOK, lastPub, store>>
    /\ UNCHANGED <<routeVars, pubExt0, now, envVars, taskVars, dataVars, psVars, presGhost>>

\* _, err := conn.Receive(); prs[i].done(err) on a connection without
\* error: the reply is the store's.
PubExec ==
    /\ pubPc = "exec"
    /\ pubI <= Len(prs)
    /\ pubConn.err = Nil
    /\ LET pr == prs[pubI]
           id == pr.err
           ch == pubInfo[id].ch
           res == ExecPub(store, pr)
       IN /\ store' = res.st
          /\ pubRes' = [pubRes EXCEPT ![id] = res.err]
          /\ pubInfo' = [pubInfo EXCEPT
                ![id].fate = IF res.err # Nil THEN "noscript"
                             ELSE IF pr.channel \in store.subs THEN "pushed"
                             ELSE "unsubscribed",
                ![id].done = @ + 1]
          /\ lastPub' = IF pr.opts # NilOpts /\ res.err = Nil
                        THEN [lastPub EXCEPT ![ch] =
                                [id |-> id, at |-> now, n |-> res.reply,
                                 touch |-> Exists(store, pr.touchKey),
                                 list |-> Exists(store, pr.historyKey)]]
                        ELSE lastPub
          /\ PubBatchEnd(Nil, pubConn.noScriptError \/ res.err = NoScript)
    /\ UNCHANGED <<pubCh, nextMsg, subOK>>
    /\ UNCHANGED <<routeVars, pubExt0, now, envVars, taskVars, dataVars, psVars, presGhost>>

\* conn.Receive() fails, at this request or because it failed before in the
\* batch: the request gets the error.  The store may have run its command.
PubExecFail ==
    /\ pubPc = "exec"
    /\ pubI <= Len(prs)
    /\ \E ran \in BOOLEAN :
          LET pr == prs[pubI]
              id == pr.err
              ch == pubInfo[id].ch
              res == ExecPub(store, pr)
              did == ran /\ res.err = Nil
          IN /\ store' = IF did THEN res.st ELSE store
             /\ pubRes' = [pubRes EXCEPT ![id] = ReadError]
             /\ pubInfo' = [pubInfo EXCEPT
                   ![id].fate = "readfail",
                      ![id].done = @ + 1]
             /\ lastPub' = IF pr.opts # NilOpts /\ did
                           THEN [lastPub EXCEPT ![ch] =
                                   [id |-> id, at |-> now, n |-> res.reply,
                                    touch |-> Exists(store, pr.touchKey),
                                    list |-> Exists(store, pr.historyKey)]]
                           ELSE lastPub
    /\ PubBatchEnd(ReadError, pubConn.noScriptError)
    /\ UNCHANGED <<pubCh, nextMsg, subOK>>
    /\ UNCHANGED <<routeVars, pubExt0, now, envVars, taskVars, dataVars, psVars, presGhost>>

\* A runForever that does not look at the shutdown channel.
PubRestartAlways ==
    /\ pubPc = "exited"
    /\ pubPc' = "start"
    /\ UNCHANGED <<pubCh, prs, pubI, pubRes, nextMsg>>
    /\ UNCHANGED <<routeVars, extVars, now, store, envVars, taskVars, dataVars, psVars,
                   presGhost, pubGhost>>

\* runForever, after its sleep: the shutdown channel is not closed, and the
\* pipeline that returned is started again.
PubRestart ==
    /\ pubPc = "exited"
    /\ ~shutdown
    /\ pubPc' = "start"
    /\ UNCHANGED <<pubCh, prs, pubI, pubRes, nextMsg>>
    /\ UNCHANGED <<routeVars, extVars, now, store, envVars, taskVars, dataVars, psVars,
                   presGhost, pubGhost>>

\* SCRIPT FLUSH: the store forgets its scripts.
ScriptFlush ==
    /\ store.scripts # {}
    /\ store' = [store EXCEPT !.scripts = {}]
    /\ UNCHANGED <<routeVars, extVars, now, envVars, taskVars, dataVars, pubVars, psVars,
                   presGhost, pubGhost>>

(***************************************************************************)
(* runPubSub: the subscriber goroutine, the initial subscriptions, the     *)
(* receiver and the workers                                                *)
(***************************************************************************)
\* The orders in which the hub may list its channels.
Orders(S) ==
    {s \in [1..Cardinality(S) -> S] : \A i, j \in 1..Cardinality(S) : s[i] = s[j] => i = j}

\* A loop over chIDs that makes one request of them all.
InitBatchesOneRequest(chIDs, i, batch, out) == <<chIDs>>

\* The loop over chIDs that cuts them into the initial subscribe requests:
\* i is the position (from 1), batch the request being filled, out those made.
RECURSIVE InitBatches(_, _, _, _)
InitBatches(chIDs, i, batch, out) ==
    IF i > Len(chIDs)
    THEN IF Len(batch) > 0 THEN Append(out, batch) ELSE out
    ELSE IF Len(batch) > 0 /\ (i - 1) % SubscribeBatchLimit = 0
         THEN InitBatches(chIDs, i + 1, <<chIDs[i]>>, Append(out, batch))
         ELSE InitBatches(chIDs, i + 1, Append(batch, chIDs[i]), out)

\* The number a pushed message carries: that of its publish call; a ping
\* carries none.
MsgID(n) ==
    IF Len(n.Data) = 0 THEN 0
    ELSE IF n.Channel = controlChannelID
         THEN IF CommandDecodes(n.Data) THEN DecodeCommand(n.Data).UID ELSE 0
    ELSE IF MessageDecodes(n.Data) THEN DecodePublication(DecodeMessage(n.Data).Data).UID
    ELSE 0
\* What the logs keep of the message n that invocation gen received.
LogEntry(gen, n) == [gen |-> gen, Channel |-> n.Channel, id |-> MsgID(n)]
MsgIDs(q) == {MsgID(q[i]) : i \in 1..Len(q)}
LaneIDs(ls) == UNION {MsgIDs(ls[i]) : i \in DOMAIN ls}

\* runPubSub up to the initial subscriptions: the connection is taken, the
\* subscriber and the workers are started, the channels to subscribe to are
\* the control channel, the ping channel and those of the hub.
PubSubStart ==
    /\ psPc = "start"
    /\ \E hs \in Orders(hub) :
          LET chIDs == <<controlChannelID, pingChannelID>>
                          \o [i \in 1..Len(hs) |-> messageChannelID(hs[i])]
          IN /\ initLeft' = InitBatches(chIDs, 1, <<>>, <<>>)
             /\ psLog' = Log([psLog EXCEPT !.gen = @ + 1, !.list = chIDs, !.sent = <<>>])
    /\ initWait' = FALSE
    /\ connOpen' = TRUE
    /\ subscriber' = "run"
    /\ lanes' = NoLanes
    /\ psPc' = "init"
    /\ UNCHANGED <<subCh, subOut, zlanes, handled, failures, zsub>>
    /\ UNCHANGED <<routeVars, psExt, now, store, envVars, taskVars, dataVars, pubVars,
                   presGhost, pubGhost>>

\* e.subCh <- r for the next initial request; runPubSub waits for its result.
PubSubInitSend ==
    /\ psPc = "init"
    /\ ~initWait
    /\ initLeft # <<>>
    /\ Len(subCh) < SubscribeChannelCap
    /\ subCh' = Append(subCh, newSubRequest(Head(initLeft), TRUE, "init"))
    /\ initWait' = TRUE
    /\ UNCHANGED <<psPc, connOpen, subscriber, subOut, initLeft, lanes, zlanes,
                   handled, failures>>
    /\ UNCHANGED <<routeVars, extVars, now, store, envVars, taskVars, dataVars, pubVars,
                   presGhost, pubGhost>>

\* runPubSub returns: done is closed and the connection is closed, so the
\* store forgets its subscriptions and what it had pushed to it is lost.  The
\* workers are not waited for: those with messages left may still take them.
\* Nor is the subscriber: k is by how much the number of subscribers that
\* outlive their runPubSub changes.
ExitPubSub(k) ==
    /\ psPc' = "exited"
    /\ zsub' = zsub + k
    /\ connOpen' = FALSE
    /\ subscriber' = "none"
    /\ subOut' = <<>>
    /\ initLeft' = <<>>
    /\ initWait' = FALSE
    /\ store' = [store EXCEPT !.subs = {}, !.inq = <<>>]
    /\ zlanes' = IF \E i \in DOMAIN lanes : lanes[i] # <<>>
                 THEN Append(zlanes, lanes) ELSE zlanes
    /\ lanes' = NoLanes
    /\ pubInfo' = [m \in 1..MaxMsgs |->
          IF m \in MsgIDs(store.inq) THEN [pubInfo[m] EXCEPT !.fate = "dropped"]
          ELSE pubInfo[m]]

\* r.done(err) as the one who waits sees it.  A task that waits for the
\* result returns; a task still busy with the touch of Unsubscribe finds the
\* result later.
AnswerTask(r, err) ==
    LET t == r.owner
    IN IF tpc[t] \in {"subWait", "unsubWait"}
       THEN /\ tpc' = [tpc EXCEPT ![t] = "idle"]
            /\ tret' = [tret EXCEPT ![t] = ReturnSub(tsub[t], err)]
            /\ tsub' = [tsub EXCEPT ![t] = NoSub]
            /\ subOK' = IF tsub[t].subscribe /\ err = Nil
                        THEN subOK \cup {tsub[t].ch} ELSE subOK
       ELSE /\ tsub' = [tsub EXCEPT ![t].res = err]
            /\ UNCHANGED <<tpc, tret, subOK>>

\* The subscriber takes a request, conn.Subscribe or conn.Unsubscribe writes
\* and flushes the command, and r.done(nil).  The command is on its way to
\* the store.
SubExec ==
    /\ subscriber = "run"
    /\ subCh # <<>>
    /\ Len(subOut) < ConnBufferCap
    /\ LET r == Head(subCh)
       IN /\ subOut' = Append(subOut, [subscribe |-> r.subscribe, channels |-> r.channels])
          /\ IF r.owner = "init"
             THEN /\ initWait' = FALSE
                  /\ initLeft' = Tail(initLeft)
                  /\ psPc' = IF Tail(initLeft) = <<>> THEN "recv" ELSE "init"
                  /\ psLog' = Log([psLog EXCEPT !.sent = Append(@, r.channels)])
                  /\ UNCHANGED <<taskVars, subOK>>
             ELSE /\ AnswerTask(r, Nil)
                  /\ UNCHANGED <<initWait, initLeft, psPc, psLog>>
    /\ subCh' = Tail(subCh)
    /\ pace' = Paced([pace EXCEPT !.idle = IF psPc' = "recv" /\ psPc # "recv" THEN 0 ELSE @])
    /\ UNCHANGED <<connOpen, subscriber, lanes, zlanes, handled, failures, lastPub, pubInfo,
                   zsub>>
    /\ UNCHANGED <<routeVars, psExt0, now, store, envVars, dataVars, pubVars, presGhost>>

\* The same, but the command fails: r.done(opErr), the subscriber closes
\* the connection and returns.  If the request was an initial one runPubSub
\* returns at once; otherwise its receiver will find the connection closed.
SubExecFail ==
    /\ subscriber = "run"
    /\ subCh # <<>>
    /\ failures < MaxFailures
    /\ failures' = failures + 1
    /\ subCh' = Tail(subCh)
    /\ LET r == Head(subCh)
       IN IF r.owner = "init"
          THEN /\ ExitPubSub(0)
               /\ UNCHANGED <<taskVars, subOK>>
          ELSE /\ AnswerTask(r, FlushError)
               /\ connOpen' = FALSE
               /\ subscriber' = "gone"
               /\ UNCHANGED <<psPc, subOut, initLeft, initWait, store, lanes, zlanes, pubInfo,
                              zsub>>
    /\ UNCHANGED <<handled, lastPub, psLog>>
    /\ UNCHANGED <<routeVars, psExt, now, envVars, dataVars, pubVars, presGhost>>

\* The store processes a SUBSCRIBE or UNSUBSCRIBE of the connection and
\* replies; a receiver in conn.Receive() gets the reply and calls it again.
StoreSub ==
    /\ subOut # <<>>
    /\ LET c == Head(subOut)
           chs == {c.channels[i] : i \in 1..Len(c.channels)}
       IN store' = [store EXCEPT !.subs = IF c.subscribe THEN @ \cup chs ELSE @ \ chs]
    /\ subOut' = Tail(subOut)
    /\ pace' = Paced([pace EXCEPT !.idle = IF psPc = "recv" /\ connOpen THEN 0 ELSE @])
    /\ UNCHANGED <<subCh, psPc, connOpen, subscriber, initLeft, initWait, lanes, zlanes,
                   handled, failures>>
    /\ UNCHANGED <<routeVars, extVars0, now, envVars, taskVars, dataVars, pubVars, presGhost, pubGhost>>

\* A receiver that hands the messages to the workers in turn.
ReceiveInTurn ==
    /\ psPc = "recv"
    /\ connOpen
    /\ store.inq # <<>>
    /\ LET n == Head(store.inq)
           w == Len(psLog.recv) % NumWorkers
       IN /\ lanes' = [lanes EXCEPT ![w] =
                         Append(@, [Channel |-> n.Channel, Data |-> n.Data,
                                    gen |-> psLog.gen])]
          /\ psLog' = Log([psLog EXCEPT !.recv = Append(@, LogEntry(psLog.gen, n))])
    /\ store' = [store EXCEPT !.inq = Tail(@)]
    /\ pace' = Paced([pace EXCEPT !.idle = 0])
    /\ UNCHANGED <<subCh, psPc, connOpen, subscriber, subOut, initLeft, initWait, zlanes,
                   handled, failures, zsub>>
    /\ UNCHANGED <<routeVars, psExt0, now, envVars, taskVars, dataVars, pubVars, presGhost, pubGhost>>

\* conn.Receive() yields a message: it goes to the worker of its channel.
\* In the worker channel the message carries the number of the invocation.
Receive ==
    /\ psPc = "recv"
    /\ connOpen
    /\ store.inq # <<>>
    /\ LET n == Head(store.inq)
           w == index(n.Channel, NumWorkers)
       IN /\ lanes' = [lanes EXCEPT ![w] =
                         Append(@, [Channel |-> n.Channel, Data |-> n.Data,
                                    gen |-> psLog.gen])]
          /\ psLog' = Log([psLog EXCEPT !.recv = Append(@, LogEntry(psLog.gen, n))])
    /\ store' = [store EXCEPT !.inq = Tail(@)]
    /\ pace' = Paced([pace EXCEPT !.idle = 0])
    /\ UNCHANGED <<subCh, psPc, connOpen, subscriber, subOut, initLeft, initWait, zlanes,
                   handled, failures, zsub>>
    /\ UNCHANGED <<routeVars, psExt0, now, envVars, taskVars, dataVars, pubVars, presGhost, pubGhost>>

\* conn.Receive() yields an error, because the connection broke or because
\* the subscriber closed it: runPubSub returns.  A subscriber that waits in
\* its select finds done closed and returns too.
ReceiveError ==
    /\ psPc = "recv"
    /\ ~connOpen \/ failures < MaxFailures
    /\ failures' = IF connOpen THEN failures + 1 ELSE failures
    /\ ExitPubSub(0)
    /\ UNCHANGED <<subCh, handled, lastPub, subOK, psLog>>
    /\ UNCHANGED <<routeVars, psExt, now, envVars, taskVars, dataVars, pubVars, presGhost>>

\* The same, while the subscriber is busy with a request: it comes to its
\* select after done was closed.
ReceiveErrorBusy ==
    /\ psPc = "recv"
    /\ subscriber = "run"
    /\ failures < MaxFailures
    /\ failures' = failures + 1
    /\ ExitPubSub(1)
    /\ UNCHANGED <<subCh, handled, lastPub, subOK, psLog>>
    /\ UNCHANGED <<routeVars, psExt, now, envVars, taskVars, dataVars, pubVars, presGhost>>

\* runForever, after its sleep: the shutdown channel is not closed, and the
\* runPubSub that returned is started again.
PubSubRestart ==
    /\ psPc = "exited"
    /\ ~shutdown
    /\ psPc' = "start"
    /\ UNCHANGED <<subCh, connOpen, subscriber, subOut, initLeft, initWait, lanes, zlanes,
                   handled, failures>>
    /\ UNCHANGED <<routeVars, extVars, now, store, envVars, taskVars, dataVars, pubVars,
                   presGhost, pubGhost>>

\* A worker that drops every message.
HandleMessageDropsAll(h, n) == h

\* What a worker does with the message n, h being what the node's client
\* message handler was handed so far: a message without data, a control
\* message and a ping do not reach it.
HandleMessage(h, n) ==
    IF Len(n.Data) = 0 THEN h
    ELSE IF n.Channel = controlChannelID THEN h
    ELSE IF n.Channel = pingChannelID THEN h
    ELSE IF ~MessageDecodes(n.Data) THEN h
    ELSE Append(h, DecodeMessage(n.Data))

\* A worker that hands on what it finds on the control channel undecoded.
HandleControlNoDecode(hc, n) ==
    IF Len(n.Data) = 0 THEN hc
    ELSE IF n.Channel = controlChannelID THEN Append(hc, n.Data[Len(n.Data)])
    ELSE hc

\* The same for the node's control handler, hc being the commands it was
\* handed so far.
HandleControl(hc, n) ==
    IF Len(n.Data) = 0 THEN hc
    ELSE IF n.Channel = controlChannelID
         THEN IF ~CommandDecodes(n.Data) THEN hc ELSE Append(hc, DecodeCommand(n.Data))
    ELSE hc

\* A worker of the running runPubSub takes the next message of its channel.
Work(i) ==
    /\ psPc \in {"init", "recv"}
    /\ lanes[i] # <<>>
    /\ handled' = HandleMessage(handled, Head(lanes[i]))
    /\ psLog' = Log([psLog EXCEPT !.work =
                        Append(@, LogEntry(Head(lanes[i]).gen, Head(lanes[i]))),
                                  !.control = HandleControl(@, Head(lanes[i]))])
    /\ lanes' = [lanes EXCEPT ![i] = Tail(@)]
    /\ UNCHANGED <<subCh, psPc, connOpen, subscriber, subOut, initLeft, initWait, zlanes,
                   failures, zsub>>
    /\ UNCHANGED <<routeVars, psExt, now, store, envVars, taskVars, dataVars, pubVars,
                   presGhost, pubGhost>>

\* The worker channels of returned invocations that still hold messages.
Live(zl) == SelectSeq(zl, LAMBDA ls : \E i \in DOMAIN ls : ls[i] # <<>>)

\* A worker of a runPubSub that returned: its select finds both done closed
\* and a message in its channel, and takes the message.
ZombieWork(g, i) ==
    /\ g \in 1..Len(zlanes)
    /\ zlanes[g][i] # <<>>
    /\ handled' = HandleMessage(handled, Head(zlanes[g][i]))
    /\ psLog' = Log([psLog EXCEPT !.work =
                        Append(@, LogEntry(Head(zlanes[g][i]).gen, Head(zlanes[g][i]))),
                                  !.control = HandleControl(@, Head(zlanes[g][i]))])
    /\ zlanes' = Live([zlanes EXCEPT ![g][i] = Tail(@)])
    /\ UNCHANGED <<subCh, psPc, connOpen, subscriber, subOut, initLeft, initWait, lanes,
                   failures, zsub>>
    /\ UNCHANGED <<routeVars, psExt, now, store, envVars, taskVars, dataVars, pubVars,
                   presGhost, pubGhost>>

\* The same worker, its select taking done: it returns and the messages
\* left in its channel are never handled.
ZombieExit(g, i) ==
    /\ g \in 1..Len(zlanes)
    /\ zlanes[g][i] # <<>>
    /\ zlanes' = Live([zlanes EXCEPT ![g][i] = <<>>])
    /\ pubInfo' = [m \in 1..MaxMsgs |->
          IF m \in MsgIDs(zlanes[g][i]) THEN [pubInfo[m] EXCEPT !.fate = "dropped"]
          ELSE pubInfo[m]]
    /\ UNCHANGED <<subCh, psPc, connOpen, subscriber, subOut, initLeft, initWait, lanes,
                   handled, failures, lastPub, subOK>>
    /\ UNCHANGED <<routeVars, extVars, now, store, envVars, taskVars, dataVars, pubVars, presGhost>>

\* The subscriber of a runPubSub that returned: its select finds both done
\* closed and a request in subCh, and takes the request.  The command does
\* not reach the store.  On the closed connection it fails: the request gets
\* the error and the subscriber returns; a runPubSub that waits for the
\* result of this request returns.  A request of a task taken between
\* close(done) and conn.Close(), before runForever starts runPubSub again,
\* may still be written: it gets nil.
ZombieSubExec ==
    /\ zsub > 0
    /\ subCh # <<>>
    /\ subCh' = Tail(subCh)
    /\ LET r == Head(subCh)
       IN IF r.owner = "init"
          THEN /\ ExitPubSub(-1)
               /\ UNCHANGED <<taskVars, subOK>>
          ELSE /\ \E err \in (IF psPc = "exited" THEN {Nil, FlushError} ELSE {FlushError}) :
                     /\ AnswerTask(r, err)
                     /\ zsub' = IF err = Nil THEN zsub ELSE zsub - 1
               /\ UNCHANGED <<psPc, connOpen, subscriber, subOut, initLeft, initWait,
                              store, lanes, zlanes, pubInfo>>
    /\ UNCHANGED <<handled, lastPub, psLog, failures>>
    /\ UNCHANGED <<routeVars, psExt, now, envVars, dataVars, pubVars, presGhost>>

\* The same subscriber, its select taking done: it returns.
ZombieSubExit ==
    /\ zsub > 0
    /\ zsub' = zsub - 1
    /\ UNCHANGED <<routeVars, chanVars, tpub, connVars, psLog, supVars, shardVars>>

\* A connection of another node subscribes to the channel or leaves it.
OthersChange(ch) ==
    /\ store' = [store EXCEPT !.others =
          IF messageChannelID(ch) \in @ THEN @ \ {messageChannelID(ch)}
          ELSE @ \cup {messageChannelID(ch)}]
    /\ UNCHANGED <<routeVars, extVars, now, envVars, taskVars, dataVars, pubVars, psVars,
                   presGhost, pubGhost>>

(***************************************************************************)
(* Time                                                                    *)
(***************************************************************************)
\* A second passes; the keys whose deadline is reached are gone.
Tick ==
    /\ now < MaxTime
    /\ now' = now + 1
    /\ store' = ExpireKeys(store, Keys, now + 1)
    /\ prevExec' = NoExec
    /\ UNCHANGED <<routeVars, extVars, envVars, taskVars, dataVars, pubVars, psVars, removed, lease,
                   pubGhost>>

(***************************************************************************)
(* Presence on one shard                                                   *)
(***************************************************************************)
PresenceInit ==
    /\ OneShard
    /\ ShardInit
    /\ chOpts = [c \in Channels |-> NoOptions]
    /\ tpc = [t \in Tasks |-> IF t = "t1" THEN "idle" ELSE "off"]

PresenceNext ==
    \/ \E t \in Tasks, ch \in PresenceChannels, uid \in UIDs, info \in Infos, e \in Expires :
          AddPresence(t, ch, uid, info, e)
    \/ \E t \in Tasks, ch \in PresenceChannels, uid \in UIDs : RemovePresence(t, ch, uid)
    \/ \E t \in Tasks, ch \in PresenceChannels : Presence(t, ch)
    \/ DataLoad
    \/ DataFill
    \/ DataExec
    \/ Tick

SpecPresence == PresenceInit /\ [][PresenceNext]_vars

\* The step in which the store runs the request dr of the batch and the
\* caller gets its reply.
Answers(dr) ==
    /\ dataPc = "exec"
    /\ dataI <= Len(drs)
    /\ drs[dataI] = dr
    /\ dataI' = dataI + 1 \/ dataPc' = "idle"

DataRequests == {drs[i] : i \in 1..Len(drs)}

\* C7: an AddPresence(c, uid, info, e) called and executed at the present
\* second and followed at once, in the same second, by Presence(c): the map
\* Presence returns holds uid with info if and only if e > 0.
TheoremC7 ==
    [][\A dr \in DataRequests :
          (/\ Answers(dr)
           /\ dr.op = dataOpPresence
           /\ dr.at = now
           /\ prevExec # NoExec
           /\ prevExec.ch = dr.ch
           /\ prevExec.at = now)
          => LET uid == prevExec.args[5]
                 info == Unmarshal(prevExec.args[6])
                 e == prevExec.args[3]
                 m == tret'[dr.owner].val
             IN (uid \in DOMAIN m /\ m[uid] = info) <=> (e > 0)]_vars

\* Presence has returned, right after an add with a positive expire that
\* replaced the info of a UID, and the map holds the UID with the new info.
WitnessC7 ==
    \E t \in Tasks :
        /\ tret[t].op = "Presence"
        /\ tret[t].after # <<>>
        /\ tret[t].after[3] > 0
        /\ tret[t].after[5] \in DOMAIN tret[t].val
        /\ tret[t].val[tret[t].after[5]] = "i2"
        /\ Cardinality(DOMAIN tret[t].val) = 2

\* C8: a UID that was added and then removed, with no add since, is in
\* neither the presence hash nor the presence set, and no presence read
\* returns it; the removal leaves the entries of the other UIDs as they were.
TheoremC8 ==
    /\ [](\A c \in Channels, u \in UIDs :
            removed[c][u] = "removed"
            => /\ u \notin DOMAIN store.hashes[getPresenceHashKey(c)]
               /\ u \notin DOMAIN store.zsets[getPresenceSetKey(c)])
    /\ [][\A dr \in DataRequests :
            /\ (Answers(dr) /\ dr.op = dataOpPresence)
               => \A u \in UIDs :
                     removed[dr.ch][u] = "removed" => u \notin DOMAIN tret'[dr.owner].val
            /\ (Answers(dr) /\ dr.op = dataOpRemovePresence)
               => \A u \in UIDs \ {dr.args[3]} :
                     LET h == store.hashes[getPresenceHashKey(dr.ch)]
                         z == store.zsets[getPresenceSetKey(dr.ch)]
                         h2 == store'.hashes[getPresenceHashKey(dr.ch)]
                         z2 == store'.zsets[getPresenceSetKey(dr.ch)]
                     IN /\ (u \in DOMAIN h) = (u \in DOMAIN h2)
                        /\ (u \in DOMAIN z) = (u \in DOMAIN z2)
                        /\ u \in DOMAIN h => h2[u] = h[u]
                        /\ u \in DOMAIN z => z2[u] = z[u]]_vars

\* Presence has returned on a channel where one UID was added and removed
\* and another is still present.
WitnessC8 ==
    \E t \in Tasks, u \in UIDs, v \in UIDs :
        /\ tret[t].op = "Presence"
        /\ removed[tret[t].ch][u] = "removed"
        /\ removed[tret[t].ch][v] = "added"
        /\ DOMAIN tret[t].val = {v}

\* C9: when the store has run a presence read with argument now, every UID
\* left in the presence hash or the presence set has a score above now, and
\* the map returned is the content of the hash.
TheoremC9 ==
    [][\A dr \in DataRequests :
          (Answers(dr) /\ dr.op = dataOpPresence)
          => LET h2 == store'.hashes[getPresenceHashKey(dr.ch)]
                 z2 == store'.zsets[getPresenceSetKey(dr.ch)]
                 m == tret'[dr.owner].val
             IN /\ \A u \in (DOMAIN h2) \cup (DOMAIN z2) :
                      u \in DOMAIN z2 /\ z2[u] > dr.args[3]
                /\ DOMAIN m = DOMAIN h2
                /\ \A u \in DOMAIN m : m[u] = Unmarshal(h2[u])]_vars

\* Presence has returned an empty map after sweeping two expired UIDs from a
\* hash that is now empty.
WitnessC9 ==
    \E t \in Tasks :
        /\ tret[t].op = "Presence"
        /\ Cardinality(tret[t].swept) = 2
        /\ DOMAIN tret[t].val = {}
        /\ DOMAIN store.hashes[getPresenceHashKey(tret[t].ch)] = {}

(***************************************************************************)
(* Routing                                                                 *)
(***************************************************************************)
RouteStart ==
    /\ RouteInit
    /\ NoChannelsCall
    /\ ShardInit
    /\ chOpts = [c \in Channels |-> NoOptions]
    /\ tpc = [t \in Tasks |-> "off"]

RouteNext == RouteNext0

SpecRoute == RouteStart /\ [][RouteNext]_vars

\* C3: every operation on a logical channel c is handed to one and the same
\* shard, whose index is a function of c and the shard count alone (0 with a
\* single shard) and is a valid index; PublishControl is handed to shard 0.
TheoremC3 ==
    /\ \A c \in RouteChannels :
          /\ Cardinality(routed[c]) <= 1
          /\ routed[c] \subseteq
                {IF shards = 1 THEN 0 ELSE consistentIndex(c, shards)}
          /\ routed[c] \subseteq 0..(shards - 1)
    /\ ctlRouted \subseteq {0}
    /\ (lastCall.op = "PublishControl" => lastCall.shard = 0)
    /\ (lastCall.ch = prevCall.ch /\ lastCall.ch # NoChannel
          => lastCall.shard = prevCall.shard)

\* Several shards, two different operations on one channel that lives on a
\* shard other than the first, another channel on another shard, and a
\* control publish.
WitnessC3 ==
    /\ shards > 1
    /\ lastCall.ch # NoChannel /\ lastCall.ch = prevCall.ch
    /\ lastCall.op = "RemoveHistory" /\ prevCall.op = "Publish"
    /\ lastCall.shard # 0
    /\ \E c \in RouteChannels : routed[c] # {} /\ routed[c] # routed[lastCall.ch]
    /\ ctlRouted = {0}

(***************************************************************************)
(* History on one shard.  The subscribers of the channel are connections   *)
(* of other nodes; this node publishes, reads the history and              *)
(* unsubscribes, which touches a channel with drop-inactive history.       *)
(***************************************************************************)
HistInit ==
    /\ OneShard
    /\ ShardRunning
    /\ chOpts \in {[c \in Channels |-> IF c \in HistoryChannels THEN o ELSE NoOptions] :
                      o \in HistoryOptions}
    /\ tpc = [t \in Tasks |-> IF t = "t1" THEN "idle" ELSE "off"]

HistNext ==
    \/ \E ch \in HistoryChannels : Publish(ch)
    \/ \E t \in Tasks, ch \in HistoryChannels, limit \in Limits : History(t, ch, limit)
    \/ \E t \in Tasks, ch \in HistoryChannels : Unsubscribe(t, ch)
    \/ \E t \in Tasks : UnsubscribeTouch(t)
    \/ \E ch \in HistoryChannels : OthersChange(ch)
    \/ DataFill
    \/ DataExec
    \/ PubFill
    \/ PubExec
    \/ SubExec
    \/ StoreSub
    \/ Tick

SpecHist == HistInit /\ [][HistNext]_vars

\* The step in which the store runs the request pr of the batch and the
\* request gets its reply.
PubAnswers(pr) ==
    /\ pubPc = "exec"
    /\ pubI <= Len(prs)
    /\ prs[pubI] = pr
    /\ pubI' = pubI + 1 \/ pubPc' = "idle"

PubRequests == {prs[i] : i \in 1..Len(prs)}

\* The publication at position i of a history list.
Entry(list, i) == DecodePublication(DecodeMessage(list[i]).Data)

\* C4: the history list of a channel published with historySize = N never
\* holds more than N entries, and History never returns more than N.
CounterC4 ==
    /\ \A c \in HistoryChannels :
          Len(store.lists[getHistoryKey(c)]) <= chOpts[c].HistorySize
    /\ \A t \in Tasks :
          tret[t].op = "History" => Len(tret[t].val) <= chOpts[tret[t].ch].HistorySize

\* The last publication with history on the channel was left out of the
\* list: drop-inactive, no subscriber, no touch key and no list.
Skipped(c) ==
    /\ chOpts[c].HistoryDropInactive
    /\ lastPub[c].n = 0
    /\ ~lastPub[c].touch
    /\ ~lastPub[c].list

\* C5 as stated: a History with limit k >= 1 that the store runs after it
\* applied the publication m with history on the channel, before any later
\* one and before the lifetime elapsed, returns a list whose head is m.
CounterC5 ==
    [][\A dr \in DataRequests :
          (/\ Answers(dr)
           /\ dr.op = dataOpHistory
           /\ dr.input[1] >= 1
           /\ lastPub[dr.ch].id # 0
           /\ now < lastPub[dr.ch].at + chOpts[dr.ch].HistoryLifetime)
          => /\ tret'[dr.owner].val # <<>>
             /\ Head(tret'[dr.owner].val) = Publication(lastPub[dr.ch].id)]_vars

\* C5: the same, unless the channel has drop-inactive history and the
\* publication reached no subscriber while neither the touch key nor the
\* history list existed.
TheoremC5 ==
    [][\A dr \in DataRequests :
          (/\ Answers(dr)
           /\ dr.op = dataOpHistory
           /\ dr.input[1] >= 1
           /\ lastPub[dr.ch].id # 0
           /\ now < lastPub[dr.ch].at + chOpts[dr.ch].HistoryLifetime
           /\ ~Skipped(dr.ch))
          => /\ tret'[dr.owner].val # <<>>
             /\ Head(tret'[dr.owner].val) = Publication(lastPub[dr.ch].id)]_vars

\* History has returned the last publication applied at the head of two, on
\* a drop-inactive channel whose last publication reached no subscriber.
WitnessC5 ==
    \E t \in Tasks :
        /\ tret[t].op = "History"
        /\ Len(tret[t].val) = 2
        /\ lastPub[tret[t].ch].id = 2
        /\ Head(tret[t].val) = Publication(2)
        /\ chOpts[tret[t].ch].HistoryDropInactive
        /\ lastPub[tret[t].ch].n = 0

\* C6 as stated: when the store applies a publication with drop-inactive
\* history that reaches no subscriber, the history list changes only if the
\* touch key exists, and the message is published all the same.
CounterC6 ==
    [][\A pr \in PubRequests :
          (/\ PubAnswers(pr)
           /\ pr.opts # NilOpts
           /\ pr.opts[1].HistoryDropInactive
           /\ pr.channel \notin store.subs \cup store.others)
          => /\ ~Exists(store, pr.touchKey)
                  => store'.lists[pr.historyKey] = store.lists[pr.historyKey]
             /\ store'.applied =
                  Append(store.applied, [Channel |-> pr.channel, Data |-> pr.message])]_vars

\* C6: when the store applies a publication with drop-inactive history that
\* reaches no subscriber, the message becomes the head of the history list
\* if the touch key or the list exists, the list stays absent if neither
\* does, and the message is published all the same.
TheoremC6 ==
    [][\A pr \in PubRequests :
          (/\ PubAnswers(pr)
           /\ pr.opts # NilOpts
           /\ pr.opts[1].HistoryDropInactive
           /\ pr.channel \notin store.subs \cup store.others)
          => /\ (Exists(store, pr.touchKey) \/ Exists(store, pr.historyKey))
                  => /\ store'.lists[pr.historyKey] # <<>>
                     /\ Head(store'.lists[pr.historyKey]) = pr.message
             /\ (~Exists(store, pr.touchKey) /\ ~Exists(store, pr.historyKey))
                  => store'.lists[pr.historyKey] = <<>>
             /\ store'.applied =
                  Append(store.applied, [Channel |-> pr.channel, Data |-> pr.message])]_vars

\* A publication on a drop-inactive channel reached no subscriber and found
\* no touch key, but a history list, and is now the head of that list.
WitnessC6 ==
    \E c \in HistoryChannels :
        /\ chOpts[c].HistoryDropInactive
        /\ lastPub[c].id # 0
        /\ lastPub[c].n = 0
        /\ ~lastPub[c].touch
        /\ lastPub[c].list
        /\ store.lists[getHistoryKey(c)] # <<>>
        /\ Entry(store.lists[getHistoryKey(c)], 1) = Publication(lastPub[c].id)

\* C10: a History with limit k > 0 returns the first min(k, length) entries
\* of the history list and one with limit 0 returns them all, as
\* publications, the newest first; it does not change the store.
TheoremC10 ==
    [][\A dr \in DataRequests :
          (Answers(dr) /\ dr.op = dataOpHistory)
          => LET list == store.lists[getHistoryKey(dr.ch)]
                 k == dr.input[1]
                 val == tret'[dr.owner].val
             IN /\ Len(val) = IF k > 0 THEN Min(k, Len(list)) ELSE Len(list)
                /\ \A i \in 1..Len(val) : val[i] = Entry(list, i)
                /\ \A i, j \in 1..Len(val) : i < j => val[i].UID > val[j].UID
                /\ tret'[dr.owner].err = Nil
                /\ store' = store]_vars

\* History has returned the two newest of three entries, the newest first.
WitnessC10 ==
    \E t \in Tasks :
        /\ tret[t].op = "History"
        /\ Len(store.lists[getHistoryKey(tret[t].ch)]) = 3
        /\ tret[t].val = <<Publication(3), Publication(2)>>

(***************************************************************************)
(* Channels over the shards of the engine.  Every shard has its own store; *)
(* shardSubs holds the channels with subscribers in each of them.  Channels *)
(* visits one shard after the other: the store and the data pipeline of    *)
(* the model are those of the shard it is visiting, chanCall.shard.  The   *)
(* node subscribes to logical channels and unsubscribes from them all the  *)
(* while, each on the shard the channel lives on.                          *)
(***************************************************************************)
\* The data request of Shard.Channels.
ChannelsRequest(t) ==
    newDataRequest(dataOpChannels, <<"CHANNELS", messagePrefix \o <<Star>>>>, t, NoChannel)

\* What RedisEngine.Channels returns.
ReturnChannels(channels, err) ==
    [op |-> "EngineChannels", ch |-> NoChannel, err |-> err, val |-> channels,
     after |-> <<>>, swept |-> {}, touch |-> "none"]

\* RedisEngine.Channels up to the request to the first shard.
EngineChannels(t) ==
    /\ tpc[t] = "idle"
    /\ Len(dataCh) < DataChannelCap
    /\ chanCall' = [pc |-> "on", shard |-> 0, channelMap |-> {}, stable |-> TRUE]
    /\ store' = [store EXCEPT !.subs = shardSubs[0]]
    /\ dataCh' = Append(dataCh, ChannelsRequest(t))
    /\ tpc' = [tpc EXCEPT ![t] = "wait"]
    /\ tret' = [tret EXCEPT ![t] = NoReturn]
    /\ UNCHANGED <<shardSubs, tsub, dataPc, drs, dataI>>
    /\ UNCHANGED <<routeVars, tpub, connVars, psLog, zsub, supVars, now, envVars, pubVars, psVars,
                   presGhost, pubGhost>>

\* The body of the loop over the shards after the first shard's reply, for a
\* loop that never looks at the others.
ChannelsNextFirstOnly(t) ==
    /\ tpc[t] = "chanNext"
    /\ tret' = [tret EXCEPT ![t] = ReturnChannels(tret[t].val, tret[t].err)]
    /\ tpc' = [tpc EXCEPT ![t] = "idle"]
    /\ chanCall' = [chanCall EXCEPT !.pc = "off"]
    /\ UNCHANGED <<shardSubs, tsub, store, dataVars>>
    /\ UNCHANGED <<routeVars, tpub, connVars, psLog, zsub, supVars, now, envVars, pubVars, psVars,
                   presGhost, pubGhost>>

\* The body of the loop over the shards, from the return of shard.Channels():
\* the error is returned; without sharding the first shard's list is
\* returned; otherwise the names go into the map, and the next shard is asked
\* or, after the last, the names of the map are returned in some order.
ChannelsNext(t) ==
    /\ tpc[t] = "chanNext"
    /\ LET chans == tret[t].val
           err == tret[t].err
           channelMap == chanCall.channelMap \cup {chans[j] : j \in 1..Len(chans)}
           done(r) == /\ tret' = [tret EXCEPT ![t] = r]
                      /\ tpc' = [tpc EXCEPT ![t] = "idle"]
                      /\ chanCall' = [chanCall EXCEPT !.pc = "off"]
                      /\ UNCHANGED <<store, dataCh>>
       IN IF err # Nil THEN done(ReturnChannels(chans, err))
          ELSE IF ~sharding THEN done(ReturnChannels(chans, Nil))
          ELSE IF chanCall.shard + 1 < shards
          THEN /\ Len(dataCh) < DataChannelCap
               /\ chanCall' = [chanCall EXCEPT !.shard = @ + 1, !.channelMap = channelMap]
               /\ store' = [store EXCEPT !.subs = shardSubs[chanCall.shard + 1]]
               /\ dataCh' = Append(dataCh, ChannelsRequest(t))
               /\ tpc' = [tpc EXCEPT ![t] = "wait"]
               /\ tret' = [tret EXCEPT ![t] = NoReturn]
          ELSE \E channels \in Orders(channelMap) : done(ReturnChannels(channels, Nil))
    /\ UNCHANGED <<shardSubs, tsub, dataPc, drs, dataI>>
    /\ UNCHANGED <<routeVars, tpub, connVars, psLog, zsub, supVars, now, envVars, pubVars, psVars,
                   presGhost, pubGhost>>

\* The node gets its first subscriber of the logical channel ch, or loses
\* its last: the subscription connection of the channel's shard subscribes to
\* the message channel or leaves it.
SubsChange(ch) ==
    LET i == shardIndex(ch)
        chID == messageChannelID(ch)
        change(S) == IF ch \in hub THEN S \ {chID} ELSE S \cup {chID}
    IN /\ hub' = IF ch \in hub THEN hub \ {ch} ELSE hub \cup {ch}
       /\ shardSubs' = [shardSubs EXCEPT ![i] = change(@)]
       /\ store' = IF i = chanCall.shard THEN [store EXCEPT !.subs = change(@)] ELSE store
       /\ chanCall' = [chanCall EXCEPT !.stable = FALSE]
       /\ UNCHANGED <<routeVars, tpub, connVars, psLog, zsub, supVars, now, chOpts, taskVars, dataVars,
                      pubVars, psVars, presGhost, pubGhost>>

ChannelsInit ==
    /\ RouteInit
    /\ ShardRunning
    /\ shardSubs = [i \in 0..(MaxShards - 1) |->
                       IF i < shards THEN {controlChannelID, pingChannelID} ELSE {}]
    /\ chanCall = NoCall
    /\ chOpts = [c \in Channels |-> NoOptions]
    /\ tpc = [t \in Tasks |-> IF t = "t1" THEN "idle" ELSE "off"]

ChannelsSpecNext ==
    \/ \E t \in Tasks : EngineChannels(t)
    \/ \E t \in Tasks : ChannelsNext(t)
    \/ \E ch \in RouteChannels : SubsChange(ch)
    \/ DataLoad
    \/ DataRestart
    \/ DataFill
    \/ DataFlushFail
    \/ DataExec
    \/ DataExecFail

SpecChannels == ChannelsInit /\ [][ChannelsSpecNext]_vars

\* The names of a list.
Names(s) == {s[j] : j \in 1..Len(s)}

\* C11: a Channels call that returns without error, the subscriptions not
\* having changed since it began, returns the logical channels the node is
\* subscribed to, whatever the number of shards, each once; when a shard's
\* request comes back with an error the call returns that error at once.
TheoremC11 ==
    /\ [](\A t \in Tasks :
            (tret[t].op = "EngineChannels" /\ tret[t].err = Nil /\ chanCall.stable)
            => /\ Names(tret[t].val) = hub
               /\ Len(tret[t].val) = Cardinality(hub))
    /\ [][\A t \in Tasks :
            (tpc[t] = "chanNext" /\ tret[t].err # Nil /\ tpc'[t] # tpc[t])
            => /\ tpc'[t] = "idle"
               /\ tret'[t].op = "EngineChannels"
               /\ tret'[t].err = tret[t].err]_vars

\* Channels has returned two names that live on two different shards, none
\* of them the first.
WitnessC11 ==
    \E t \in Tasks, c, d \in RouteChannels :
        /\ tret[t].op = "EngineChannels"
        /\ tret[t].err = Nil
        /\ chanCall.stable
        /\ shards > 2
        /\ Names(tret[t].val) = {c, d}
        /\ shardIndex(c) # shardIndex(d)
        /\ shardIndex(c) # 0 /\ shardIndex(d) # 0

(***************************************************************************)
(* The pipelines of one shard under failures: requests wait for room in    *)
(* the publish channel, flushes and reads of replies fail, the store       *)
(* loses its scripts, script loads fail, and runForever restarts a         *)
(* pipeline that returned.                                                 *)
(***************************************************************************)
PublishKinds == {"Publish", "PublishJoin", "PublishLeave", "PublishControl"}

\* The join and leave messages and their encodings.
Join(id) == [UID |-> id]
EncodeJoin(join) == <<"join", join>>
NewJoinMessage(ch, data) == [Type |-> "join", Channel |-> ch, Data |-> data]
Leave(id) == [UID |-> id]
EncodeLeave(leave) == <<"leave", leave>>
NewLeaveMessage(ch, data) == [Type |-> "leave", Channel |-> ch, Data |-> data]

\* The pubRequest a call builds; id stands for its reply channel.
pubRequest(kind, ch, id) ==
    LET plain(chID, byteMessage) ==
            [channel |-> chID, message |-> byteMessage,
             historyKey |-> <<>>, touchKey |-> <<>>, opts |-> NilOpts, err |-> id]
    IN CASE kind = "Publish" ->
              LET opts == OptsPtr(chOpts[ch])
                  byteMessage == EncodeMessage(
                      NewPublicationMessage(ch, EncodePublication(Publication(id))))
              IN IF opts # NilOpts /\ opts[1].HistorySize > 0
                    /\ opts[1].HistoryLifetime > 0
                 THEN [channel |-> messageChannelID(ch), message |-> byteMessage,
                       historyKey |-> getHistoryKey(ch),
                       touchKey |-> getHistoryTouchKey(ch),
                       opts |-> opts, err |-> id]
                 ELSE plain(messageChannelID(ch), byteMessage)
         [] kind = "PublishJoin" ->
              plain(messageChannelID(ch),
                    EncodeMessage(NewJoinMessage(ch, EncodeJoin(Join(id)))))
         [] kind = "PublishLeave" ->
              plain(messageChannelID(ch),
                    EncodeMessage(NewLeaveMessage(ch, EncodeLeave(Leave(id)))))
         [] OTHER ->
              plain(controlChannelID, EncodeCommand(Command(id)))

\* Publish, PublishJoin, PublishLeave or PublishControl up to e.pubCh <- pr.
PublishCall(t, kind, ch) ==
    /\ tpc[t] = "idle"
    /\ nextMsg <= MaxMsgs
    /\ kind = "PublishControl" <=> ch = NoChannel
    /\ tpub' = [tpub EXCEPT ![t] = pubRequest(kind, ch, nextMsg)]
    /\ tpc' = [tpc EXCEPT ![t] = "pubSend"]
    /\ nextMsg' = nextMsg + 1
    /\ pubInfo' = [pubInfo EXCEPT ![nextMsg] =
                      [NoInfo EXCEPT !.ch = ch, !.afterSub = ch \in subOK,
                                     !.fate = "calling",
                                     !.full = (Len(pubCh) = PublishChannelCap),
                                     !.touch = IF tret[t].op = "Unsubscribe"
                                                  /\ tret[t].ch = ch
                                               THEN tret[t].touch ELSE "none"]]
    /\ UNCHANGED <<tret, tsub, pubCh, pubPc, prs, pubI, pubRes, lastPub, subOK>>
    /\ UNCHANGED <<routeVars, chanVars, connVars, psLog, zsub, supVars, now, store, envVars,
                   dataVars, psVars, presGhost>>

\* The request of the task goes into the publish channel and the call
\* returns the reply channel.
Enqueue(t) ==
    /\ tpc[t] = "pubSend"
    /\ pubCh' = Append(pubCh, tpub[t])
    /\ tpub' = [tpub EXCEPT ![t] = NoRequest]
    /\ tpc' = [tpc EXCEPT ![t] = "idle"]
    /\ pubInfo' = [pubInfo EXCEPT ![tpub[t].err].fate = "queued"]
    /\ UNCHANGED <<tret, tsub, pubPc, prs, pubI, pubRes, nextMsg, lastPub, subOK>>
    /\ UNCHANGED <<routeVars, chanVars, connVars, psLog, zsub, supVars, now, store, envVars,
                   dataVars, psVars, presGhost>>

\* A send that does not wait for room in the channel.
PublishSendUnbounded(t) == Enqueue(t)

\* e.pubCh <- pr: the send waits while the channel is full.
PublishSend(t) ==
    /\ Len(pubCh) < PublishChannelCap
    /\ Enqueue(t)

PipeInit ==
    /\ OneShard
    /\ ShardInit
    /\ chOpts \in {[c \in Channels |-> IF c \in HistoryChannels THEN o ELSE NoOptions] :
                      o \in {h \in HistoryOptions : ~h.HistoryDropInactive}}
    /\ tpc = [t \in Tasks |-> IF t = "t1" THEN "idle" ELSE "off"]

PipeNext ==
    \/ \E t \in Tasks, kind \in PublishKinds, ch \in HistoryChannels \cup {NoChannel} :
          PublishCall(t, kind, ch)
    \/ \E t \in Tasks : PublishSend(t)
    \/ PubLoad
    \/ PubLoadFail
    \/ PubFill
    \/ PubFlushFail
    \/ PubExec
    \/ PubExecFail
    \/ PubRestart
    \/ ScriptFlush

SpecPipe == PipeInit /\ [][PipeNext]_vars

\* C12: the publish channel never holds more than PublishChannelCap
\* requests; a call that has its request ready while the channel is full
\* stays where it is, with its request, until the channel has room; and the
\* step by which the call goes on appends exactly its request to the channel.
TheoremC12 ==
    /\ [](Len(pubCh) <= PublishChannelCap)
    /\ [][\A t \in Tasks :
            tpc[t] = "pubSend" =>
              /\ Len(pubCh) = PublishChannelCap =>
                    /\ tpc'[t] = "pubSend"
                    /\ tpub'[t] = tpub[t]
                    /\ pubInfo'[tpub[t].err].fate = "calling"
              /\ tpc'[t] # "pubSend" =>
                    /\ Len(pubCh) < PublishChannelCap
                    /\ pubCh' = Append(pubCh, tpub[t])]_vars
    /\ [][Len(pubCh') < Len(pubCh) => pubPc = "idle" /\ pubPc' \in {"exec", "exited"}]_vars

\* A publication whose call found the channel full was answered without error.
WitnessC12 ==
    \E id \in 1..MaxMsgs :
        /\ pubInfo[id].full
        /\ pubInfo[id].done = 1
        /\ pubRes[id] = Nil

\* A publish request with history: the pipeline sends the script for it.
IsHistoryRequest(pr) ==
    pr.opts # NilOpts /\ pr.opts[1].HistorySize > 0 /\ pr.opts[1].HistoryLifetime > 0

\* C13: a publish request is answered NOSCRIPT exactly when it is a history
\* request that the store gets while the publish script is not in its cache,
\* and the store is left as it was; every history request of the batch that
\* comes after it is answered the same way.  The pipeline answers the whole
\* batch, returns at its end if one reply was NOSCRIPT, and, started again,
\* loads the script before it takes a request from the publish channel; a
\* history request the store gets with the script cached is applied.
TheoremC13 ==
    /\ [][\A id \in 1..MaxMsgs :
            pubRes[id] = "none" /\ pubRes'[id] = NoScript =>
              /\ pubPc = "exec" /\ prs[pubI].err = id
              /\ IsHistoryRequest(prs[pubI])
              /\ "pubScript" \notin store.scripts
              /\ store' = store
              /\ IF pubI < Len(prs)
                 THEN pubPc' = "exec" /\ pubI' = pubI + 1 /\ pubConn'.noScriptError
                 ELSE pubPc' = "exited"]_vars
    /\ [][\A id \in 1..MaxMsgs :
            /\ pubRes[id] = "none" /\ pubRes'[id] = Nil
            /\ pubPc = "exec" /\ IsHistoryRequest(prs[pubI])
            => /\ "pubScript" \in store.scripts
               /\ lastPub'[pubInfo[id].ch].id = id]_vars
    /\ [][pubPc = "exec" /\ pubPc' # "exec" =>
            /\ pubI = Len(prs)
            /\ pubPc' = IF pubConn.noScriptError \/ pubRes'[prs[pubI].err] = NoScript
                        THEN "exited" ELSE "idle"]_vars
    /\ [][pubPc = "exited" /\ pubPc' # "exited" => pubPc' = "start" /\ pubCh' = pubCh]_vars
    /\ [][pubPc = "start" /\ pubPc' = "idle" => "pubScript" \in store'.scripts]_vars
    /\ [][Len(pubCh') < Len(pubCh) => pubPc = "idle"]_vars

\* A history publication was answered NOSCRIPT and a later one was applied.
WitnessC13 ==
    \E id1, id2 \in 1..MaxMsgs :
        /\ id1 < id2
        /\ pubRes[id1] = NoScript
        /\ pubRes[id2] = Nil
        /\ pubInfo[id2].ch \in HistoryChannels
        /\ lastPub[pubInfo[id2].ch].id = id2

\* C13 as stated: once a request of a batch was answered NOSCRIPT, no other
\* request is answered NOSCRIPT before the script has been loaded again.
CounterC13 ==
    [][\A id \in 1..MaxMsgs :
         pubRes[id] = "none" /\ pubRes'[id] = NoScript => ~pubConn.noScriptError]_vars

\* C18: when a request is answered with the flush error, it is one of the
\* batch the pipeline takes from the publish channel in that step, every
\* request of that batch is answered with the flush error in the same step,
\* none of them was answered before or is answered again, the store is not
\* changed and the pipeline returns.
TheoremC18 ==
    /\ [][\A id \in 1..MaxMsgs :
            pubRes'[id] = FlushError /\ pubRes[id] # FlushError =>
              LET n == Min(Len(pubCh), PublishBatchLimit)
              IN /\ pubPc = "idle" /\ pubPc' = "exited"
                 /\ \E i \in 1..n : pubCh[i].err = id
                 /\ \A i \in 1..n :
                       /\ pubRes[pubCh[i].err] = "none"
                       /\ pubInfo[pubCh[i].err].done = 0
                       /\ pubRes'[pubCh[i].err] = FlushError
                       /\ pubInfo'[pubCh[i].err].done = 1
                 /\ pubCh' = SubSeq(pubCh, n + 1, Len(pubCh))
                 /\ store' = store]_vars
    /\ [][\A id \in 1..MaxMsgs :
            pubRes[id] = FlushError =>
               pubRes'[id] = FlushError /\ pubInfo'[id].done = 1]_vars

\* Two requests, and no other, were answered, both with the flush error, and
\* the pipeline has returned.
WitnessC18 ==
    /\ pubPc = "exited"
    /\ \E id1, id2 \in 1..MaxMsgs :
          /\ id1 < id2
          /\ pubRes[id1] = FlushError /\ pubRes[id2] = FlushError
          /\ pubInfo[id1].done = 1 /\ pubInfo[id2].done = 1
          /\ \A id \in 1..MaxMsgs : id \notin {id1, id2} => pubRes[id] = "none"

(***************************************************************************)
(* Both pipelines of a running shard with transport errors: flushes and    *)
(* reads of replies fail.                                                  *)
(***************************************************************************)
FailInit ==
    /\ OneShard
    /\ ShardRunning
    /\ chOpts \in {[c \in Channels |-> IF c \in HistoryChannels THEN o ELSE NoOptions] :
                      o \in HistoryOptions}
    /\ tpc = [t \in Tasks |-> "idle"]

FailNext ==
    \/ \E ch \in HistoryChannels : nextMsg <= MaxPubs /\ PublishCall("t1", "Publish", ch)
    \/ \E t \in Tasks : PublishSend(t)
    \/ \E t \in Tasks, ch \in HistoryChannels : History(t, ch, 0)
    \/ PubLoad
    \/ PubFill
    \/ PubFlushFail
    \/ PubExec
    \/ PubExecFail
    \/ PubRestart
    \/ DataLoad
    \/ DataLoadFail
    \/ DataFill
    \/ DataFlushFail
    \/ DataExec
    \/ DataExecFail
    \/ DataRestart

SpecFail == FailInit /\ [][FailNext]_vars

\* The task whose data request is answered in this step got err.
DataAnswered(t, err) ==
    /\ tpc[t] = "wait"
    /\ tpc'[t] = "idle"
    /\ tret'[t].err = err

\* C19: when the flush of a batch fails, every request of the batch is
\* answered with the flush error and the pipeline returns.  When the read of
\* a reply fails, the request is answered with the read error and so is
\* every later request of the batch; at the end of the batch the pipeline
\* does not return: it goes on with the next batch (it returns only if a
\* reply of the batch was NOSCRIPT).  The same holds for the data pipeline.
TheoremC19 ==
    /\ [][pubPc = "idle" /\ pubPc' = "exited" =>
            \A i \in 1..Min(Len(pubCh), PublishBatchLimit) :
                pubRes[pubCh[i].err] = "none" /\ pubRes'[pubCh[i].err] = FlushError]_vars
    /\ [][dataPc = "idle" /\ dataPc' = "exited" =>
            \A i \in 1..Min(Len(dataCh), DataChannelCap) :
                DataAnswered(dataCh[i].owner, FlushError)]_vars
    /\ [][pubPc = "exec" /\ <<pubI, prs>>' # <<pubI, prs>> =>
            LET id == prs[pubI].err
            IN /\ pubRes[id] = "none" /\ pubRes'[id] # "none"
               /\ pubConn.err # Nil => pubRes'[id] = pubConn.err
               /\ pubRes'[id] = ReadError =>
                     IF pubI < Len(prs)
                     THEN pubPc' = "exec" /\ pubI' = pubI + 1 /\ pubConn'.err = ReadError
                     ELSE pubPc' = (IF pubConn.noScriptError THEN "exited" ELSE "idle")]_vars
    /\ [][dataPc = "exec" /\ <<dataI, drs>>' # <<dataI, drs>> =>
            LET t == drs[dataI].owner
            IN /\ tpc[t] = "wait" /\ tpc'[t] = "idle"
               /\ dataConn.err # Nil => tret'[t].err = dataConn.err
               /\ tret'[t].err = ReadError =>
                     IF dataI < Len(drs)
                     THEN dataPc' = "exec" /\ dataI' = dataI + 1
                          /\ dataConn'.err = ReadError
                     ELSE dataPc' = (IF dataConn.noScriptError THEN "exited" ELSE "idle")]_vars

\* Both requests of a publish batch and both of a data batch were answered
\* with the read error, and both pipelines wait for the next batch.
WitnessC19 ==
    /\ pubPc = "idle" /\ dataPc = "idle"
    /\ pubRes[1] = ReadError /\ pubRes[2] = ReadError
    /\ pubInfo[1].done = 1 /\ pubInfo[2].done = 1
    /\ \A t \in Tasks : tpc[t] = "idle" /\ tret[t].op = "History" /\ tret[t].err = ReadError

\* C19 as stated: after a failed read of a reply the pipeline returns at the
\* end of the batch.
CounterC19 ==
    /\ [][/\ pubPc = "exec" /\ pubPc' # "exec"
          /\ pubRes'[prs[pubI].err] = ReadError
          => pubPc' = "exited"]_vars
    /\ [][/\ dataPc = "exec" /\ dataPc' # "exec"
          /\ tret'[drs[dataI].owner].err = ReadError
          => dataPc' = "exited"]_vars

(***************************************************************************)
(* Subscribing and unsubscribing on one shard from its start, with         *)
(* failures of the subscription connection.  The first channel has         *)
(* drop-inactive history, so that Unsubscribe touches it.                  *)
(***************************************************************************)
SubInit ==
    /\ OneShard
    /\ ShardWith(FALSE, TRUE)
    /\ chOpts \in {[c \in Channels |-> IF c \in HistoryChannels THEN o ELSE NoOptions] :
                      o \in {h \in HistoryOptions : h.HistoryDropInactive}}
    /\ tpc = [t \in Tasks |-> IF t = "t1" THEN "idle" ELSE "off"]

\* conn.Receive() on the connection the subscriber closed.
ReceiveErrorClosed == ~connOpen /\ ReceiveError

SubNext ==
    \/ \E t \in Tasks, ch \in PubSubChannels : Subscribe(t, ch)
    \/ \E t \in Tasks, ch \in PubSubChannels : Unsubscribe(t, ch)
    \/ \E t \in Tasks : UnsubscribeTouch(t)
    \/ DataLoad
    \/ DataFill
    \/ DataExec
    \/ PubSubStart
    \/ PubSubInitSend
    \/ SubExec
    \/ SubExecFail
    \/ StoreSub
    \/ ReceiveError
    \/ ReceiveErrorBusy
    \/ PubSubRestart
    \/ ZombieSubExec
    \/ ZombieSubExit

SpecSub == SubInit /\ [][SubNext]_vars

\* The goroutines of the shard run on: runPubSub, its subscriber and its
\* receiver, the store and runForever take the steps they can take.
SubFairness ==
    /\ WF_vars(PubSubStart)
    /\ WF_vars(PubSubInitSend)
    /\ WF_vars(SubExec)
    /\ WF_vars(StoreSub)
    /\ WF_vars(ReceiveErrorClosed)
    /\ WF_vars(PubSubRestart)
    /\ WF_vars(DataLoad)
    /\ WF_vars(DataFill)
    /\ WF_vars(DataExec)

SpecSubFair == SpecSub /\ SubFairness

\* C14: once the subscriber has returned after a command error, having
\* answered the request and closed the connection, the runPubSub invocation
\* returns.
CounterC14 == (subscriber = "gone") ~> (psPc = "exited")

\* The channels of a sequence of requests, in order.
RECURSIVE Flatten(_)
Flatten(ss) == IF ss = <<>> THEN <<>> ELSE Head(ss) \o Flatten(Tail(ss))

\* C15: runPubSub lists the control channel, the ping channel and the
\* message channel of every channel of the hub, each once; when it enters
\* its receive phase, and as long as it is there, the initial subscribe
\* requests the subscriber has written to its connection hold the listed
\* channels, each in exactly one request and at most SubscribeBatchLimit in
\* a request; an initial request that fails makes the invocation return
\* without entering the receive phase.
TheoremC15 ==
    /\ [][psPc = "start" /\ psPc' = "init" =>
            /\ Len(psLog'.list) = 2 + Cardinality(hub)
            /\ psLog'.list[1] = controlChannelID
            /\ psLog'.list[2] = pingChannelID
            /\ {psLog'.list[i] : i \in 3..Len(psLog'.list)}
                  = {messageChannelID(c) : c \in hub}
            /\ psLog'.sent = <<>>]_vars
    /\ [](psPc = "recv" =>
            /\ Flatten(psLog.sent) = psLog.list
            /\ connOpen \/ subscriber = "gone"
            /\ \A i \in 1..Len(psLog.sent) :
                  Len(psLog.sent[i]) \in 1..SubscribeBatchLimit)
    /\ [][psPc = "init" /\ psLog'.sent # psLog.sent =>
            /\ subCh # <<>> /\ Head(subCh).owner = "init" /\ Head(subCh).subscribe
            /\ psLog'.sent = Append(psLog.sent, Head(subCh).channels)
            /\ subOut' = Append(subOut, [subscribe |-> TRUE,
                                         channels |-> Head(subCh).channels])]_vars
    /\ [][/\ psPc = "init" /\ subCh # <<>> /\ Head(subCh).owner = "init"
          /\ subCh' = Tail(subCh) /\ psLog'.sent = psLog.sent
          => psPc' = "exited" /\ ~connOpen']_vars

\* An invocation that listed a channel of the hub is in its receive phase
\* after two initial requests.
WitnessC15 ==
    /\ psPc = "recv"
    /\ Len(psLog.list) = 3
    /\ Len(psLog.sent) = 2

\* Nothing is on its way: no request waits in subCh, no command is on its
\* way to the store and runPubSub is in its receive phase on an open
\* connection.
Quiet ==
    /\ psPc = "recv"
    /\ connOpen
    /\ subscriber = "run"
    /\ subCh = <<>>
    /\ subOut = <<>>

\* C17: when the last call of the only task that subscribes was an
\* Unsubscribe(c) that returned nil, or a Subscribe(c) that returned nil, and
\* nothing is on its way, the connection's subscription to c is that of this
\* last request.
CounterC17 ==
    \A t \in Tasks :
        (Quiet /\ tpc[t] = "idle" /\ tret[t].err = Nil
               /\ tret[t].op \in {"Subscribe", "Unsubscribe"})
        => (messageChannelID(tret[t].ch) \in store.subs <=> tret[t].op = "Subscribe")

\* The channel has history that is dropped when it is inactive.
DropInactive(ch) == ch \in Channels /\ chOpts[ch].HistoryDropInactive

LanesInit ==
    /\ OneShard
    /\ ShardWith(TRUE, TRUE)
    /\ chOpts = [c \in Channels |-> NoOptions]
    /\ tpc = [t \in Tasks |-> IF t = "t1" THEN "idle" ELSE "off"]

LanesNext ==
    \/ \E t \in Tasks, ch \in PubSubChannels : ch \notin hub /\ Subscribe(t, ch)
    \/ \E t \in Tasks, ch \in PubSubChannels :
          nextMsg <= MaxPubs /\ PublishCall(t, "Publish", ch)
    \/ \E t \in Tasks : nextMsg <= MaxPubs /\ PublishCall(t, "PublishControl", NoChannel)
    \/ \E t \in Tasks : PublishSend(t)
    \/ PubFill
    \/ PubExec
    \/ PubSubStart
    \/ PubSubInitSend
    \/ SubExec
    \/ StoreSub
    \/ Receive
    \/ ReceiveError
    \/ PubSubRestart
    \/ \E i \in 0..(NumWorkers - 1) : Work(i)
    \/ \E g \in 1..MaxFailures, i \in 0..(NumWorkers - 1) : ZombieWork(g, i)
    \/ \E g \in 1..MaxFailures, i \in 0..(NumWorkers - 1) : ZombieExit(g, i)

SpecLanes == LanesInit /\ [][LanesNext]_vars

\* Where the receiver's log has the entry.
Pos(log, entry) == CHOOSE i \in 1..Len(log) : log[i] = entry

\* Every message in the worker channels ls is in the channel of its store
\* channel.
OnOwnLane(ls) ==
    \A i \in DOMAIN ls : \A k \in 1..Len(ls[i]) :
        index(ls[i][k].Channel, NumWorkers) = i

\* C16: the receiver puts a message into the worker channel given by its
\* store channel, so the messages of a store channel that one invocation
\* received are all in the same worker channel; and the messages of one
\* invocation and one store channel are taken by the workers in the order
\* in which the receiver got them.
TheoremC16 ==
    /\ [](OnOwnLane(lanes) /\ \A g \in 1..Len(zlanes) : OnOwnLane(zlanes[g]))
    /\ [][psLog'.recv # psLog.recv =>
            LET n == Head(store.inq)
                w == index(n.Channel, NumWorkers)
            IN /\ psLog'.recv = Append(psLog.recv, LogEntry(psLog.gen, n))
               /\ lanes' = [lanes EXCEPT ![w] =
                    Append(@, [Channel |-> n.Channel, Data |-> n.Data,
                               gen |-> psLog.gen])]]_vars
    /\ [](\A i, j \in 1..Len(psLog.work) :
            /\ \E k \in 1..Len(psLog.recv) : psLog.recv[k] = psLog.work[i]
            /\ (i < j /\ psLog.work[i].gen = psLog.work[j].gen
                      /\ psLog.work[i].Channel = psLog.work[j].Channel)
               => Pos(psLog.recv, psLog.work[i]) < Pos(psLog.recv, psLog.work[j]))

\* The workers have taken two messages of one store channel that one
\* invocation received.
WitnessC16 ==
    \E i, j \in 1..Len(psLog.work) :
        /\ i < j
        /\ psLog.work[i].gen = psLog.work[j].gen
        /\ psLog.work[i].Channel = psLog.work[j].Channel

(***************************************************************************)
(* Unsubscribe and Publish of a channel with drop-inactive history on one  *)
(* running shard whose data connection fails.  The clock stands still, so  *)
(* that a touch key the store has set does not expire.                     *)
(***************************************************************************)
TouchInit ==
    /\ OneShard
    /\ ShardRunning
    /\ chOpts \in {[c \in Channels |-> IF c \in HistoryChannels THEN o ELSE NoOptions] :
                      o \in {h \in HistoryOptions : h.HistoryDropInactive}}
    /\ tpc = [t \in Tasks |-> IF t = "t1" THEN "idle" ELSE "off"]

TouchNext ==
    \/ \E t \in Tasks, ch \in HistoryChannels : Unsubscribe(t, ch)
    \/ \E t \in Tasks : UnsubscribeTouch(t)
    \/ \E t \in Tasks, ch \in HistoryChannels :
          nextMsg <= MaxPubs /\ PublishCall(t, "Publish", ch)
    \/ \E t \in Tasks : PublishSend(t)
    \/ PubFill
    \/ PubExec
    \/ SubExec
    \/ StoreSub
    \/ DataLoad
    \/ DataFill
    \/ DataFlushFail
    \/ DataExec
    \/ DataExecFail
    \/ DataRestart

SpecTouch == TouchInit /\ [][TouchNext]_vars

\* A touch request of the task waits in the data pipeline.
TouchPending(t) ==
    \/ \E i \in 1..Len(dataCh) :
          dataCh[i].owner = t /\ dataCh[i].op = dataOpHistoryTouch
    \/ \E i \in dataI..Len(drs) :
          drs[i].owner = t /\ drs[i].op = dataOpHistoryTouch

\* The store runs the publish script of publication id in this step.
Evaluates(id) ==
    /\ pubPc = "exec"
    /\ <<pubI, prs>>' # <<pubI, prs>>
    /\ prs[pubI].err = id

ReadTimeout == 3
PingTimeout == ReadTimeout \div 3

\* case <-time.After(pingTimeout): PUBLISH on the ping channel with a nil
\* payload, and the select is entered again.  The store's list of applied
\* publications keeps no pings.
Ping ==
    /\ pace.on
    /\ pubPc = "idle"
    /\ pace.timer >= PingTimeout
    /\ store' = [PUBLISH(store, pingChannelID, <<>>).st EXCEPT !.applied = store.applied]
    /\ pace' = [pace EXCEPT !.timer = 0, !.ping = 0]
    /\ UNCHANGED <<routeVars, extVars0, now, envVars, taskVars, dataVars, pubVars, psVars,
                   presGhost, pubGhost>>

\* conn.Receive() got nothing for ReadTimeout: it returns the timeout error.
ReceiveTimeout ==
    /\ pace.on
    /\ connOpen
    /\ store.inq = <<>>
    /\ pace.idle >= ReadTimeout
    /\ ReceiveError

\* A ping interval passes.
PaceTick ==
    /\ pace.on
    /\ pubPc = "idle" /\ pubCh = <<>> /\ pace.timer < PingTimeout
    /\ psPc = "recv" /\ store.inq = <<>> /\ pace.idle < ReadTimeout
    /\ subCh = <<>> /\ subOut = <<>>
    /\ lanes = NoLanes
    /\ pace' = [pace EXCEPT !.timer = @ + 1, !.ping = @ + 1, !.idle = @ + 1]
    /\ UNCHANGED <<routeVars, extVars0, now, store, envVars, taskVars, dataVars, pubVars,
                   psVars, presGhost, pubGhost>>

PaceInit ==
    /\ OneShard
    /\ ShardPaced(TRUE, FALSE, TRUE)
    /\ chOpts = [c \in Channels |-> NoOptions]
    /\ tpc = [t \in Tasks |-> IF t = "t1" THEN "idle" ELSE "off"]

PaceNext ==
    \/ \E t \in Tasks, ch \in PubSubChannels : PublishCall(t, "Publish", ch)
    \/ \E t \in Tasks : PublishSend(t)
    \/ PubFill
    \/ PubExec
    \/ Ping
    \/ PaceTick
    \/ Receive
    \/ ReceiveTimeout
    \/ \E i \in 0..(NumWorkers - 1) : Work(i)
    \/ PubSubRestart
    \/ PubSubStart
    \/ PubSubInitSend
    \/ SubExec
    \/ StoreSub

SpecPace == PaceInit /\ [][PaceNext]_vars

\* C22: the publish pipeline publishes a ping at least once in every
\* interval of ReadTimeout / 3, and conn.Receive() of the subscription
\* connection never times out, so that runPubSub never returns.
CounterC22 ==
    /\ [](pace.ping <= PingTimeout)
    /\ [][psPc = "recv" => psPc' = "recv"]_vars

(***************************************************************************)
(* runForever and the shutdown of the node: the three loops of one shard   *)
(* from their start, with failures that make them return.                  *)
(***************************************************************************)
\* The node closes the channel NotifyShutdown() gave out.
NotifyShutdown ==
    /\ ~shutdown
    /\ shutdown' = TRUE
    /\ UNCHANGED <<routeVars, shardVars, chanVars, tpub, connVars, psLog, zsub, pace>>

\* runForever, after its sleep: case <-shutdownCh, and it returns.
PubStop ==
    /\ pubPc = "exited"
    /\ shutdown
    /\ pubPc' = "stopped"
    /\ UNCHANGED <<pubCh, prs, pubI, pubRes, nextMsg>>
    /\ UNCHANGED <<routeVars, extVars, now, store, envVars, taskVars, dataVars, psVars,
                   presGhost, pubGhost>>

DataStop ==
    /\ dataPc = "exited"
    /\ shutdown
    /\ dataPc' = "stopped"
    /\ UNCHANGED <<dataCh, drs, dataI>>
    /\ UNCHANGED <<routeVars, extVars, now, store, envVars, taskVars, pubVars, psVars,
                   presGhost, pubGhost>>

PubSubStop ==
    /\ psPc = "exited"
    /\ shutdown
    /\ psPc' = "stopped"
    /\ UNCHANGED <<subCh, connOpen, subscriber, subOut, initLeft, initWait, lanes, zlanes,
                   handled, failures>>
    /\ UNCHANGED <<routeVars, extVars, now, store, envVars, taskVars, dataVars, pubVars,
                   presGhost, pubGhost>>

SupInit ==
    /\ OneShard
    /\ ShardInit
    /\ chOpts = [c \in Channels |-> NoOptions]
    /\ tpc = [t \in Tasks |-> IF t = "t1" THEN "idle" ELSE "off"]

SupNext ==
    \/ NotifyShutdown
    \/ \E ch \in PubSubChannels : nextMsg <= MaxPubs /\ Publish(ch)
    \/ PubLoad
    \/ PubLoadFail
    \/ PubFill
    \/ PubFlushFail
    \/ PubExec
    \/ PubRestart
    \/ PubStop
    \/ DataLoad
    \/ DataLoadFail
    \/ DataRestart
    \/ DataStop
    \/ PubSubStart
    \/ PubSubInitSend
    \/ SubExec
    \/ StoreSub
    \/ ReceiveError
    \/ PubSubRestart
    \/ PubSubStop

\* The three runForever goroutines run on.
SupFairness ==
    /\ WF_vars(PubRestart) /\ WF_vars(PubStop)
    /\ WF_vars(DataRestart) /\ WF_vars(DataStop)
    /\ WF_vars(PubSubRestart) /\ WF_vars(PubSubStop)

SpecSup == SupInit /\ [][SupNext]_vars /\ SupFairness

\* The positions of the three loops.
LoopPcs == <<pubPc, dataPc, psPc>>

\* C23: a loop that returned is entered again if the shutdown channel is
\* not closed, and this comes about; once the channel is closed it stays
\* closed, no loop is entered any more, and a supervisor whose loop has
\* returned returns and stays so.
TheoremC23 ==
    /\ [][\A k \in 1..3 :
            /\ (LoopPcs[k] = "exited" /\ LoopPcs'[k] # "exited")
               => LoopPcs'[k] = (IF shutdown THEN "stopped" ELSE "start")
            /\ LoopPcs'[k] = "start" => (LoopPcs[k] = "start" \/ ~shutdown)
            /\ LoopPcs'[k] = "stopped" => (LoopPcs[k] \in {"exited", "stopped"} /\ shutdown)
            /\ LoopPcs[k] = "stopped" => LoopPcs'[k] = "stopped"]_vars
    /\ [][shutdown => shutdown']_vars
    /\ \A k \in 1..3 :
          (LoopPcs[k] = "exited") ~> (LoopPcs[k] \in {"start", "stopped"})

\* The three supervisors have returned, runPubSub having been started again
\* once before.
WitnessC23 ==
    /\ shutdown
    /\ \A k \in 1..3 : LoopPcs[k] = "stopped"
    /\ failures = 1

(***************************************************************************)
(* The presence hash and the presence set of a channel                     *)
(***************************************************************************)
PresenceHash(st, c) == st.hashes[getPresenceHashKey(c)]
PresenceSet(st, c) == st.zsets[getPresenceSetKey(c)]

\* The step in which the store runs an add-presence script for uid on c.
AddsPresence(c, uid) ==
    \E dr \in DataRequests :
        /\ Answers(dr)
        /\ dr.op = dataOpAddPresence
        /\ dr.ch = c
        /\ dr.args[5] = uid

\* C24: at every moment the presence hash and the presence set of a channel
\* hold the same UIDs and expire together; a UID enters the set only when an
\* add-presence script runs for it, with the expire-at the script was given
\* as its score, and its score stays as it is until the next add-presence
\* script for that UID.
TheoremC24 ==
    /\ [](\A c \in PresenceChannels :
            /\ DOMAIN PresenceHash(store, c) = DOMAIN PresenceSet(store, c)
            /\ store.ttl[getPresenceHashKey(c)] = store.ttl[getPresenceSetKey(c)])
    /\ [][\A c \in PresenceChannels, u \in UIDs :
            /\ \A dr \in DataRequests :
                  (Answers(dr) /\ dr.op = dataOpAddPresence /\ dr.ch = c
                   /\ dr.args[5] = u /\ u \in DOMAIN PresenceSet(store', c))
                  => PresenceSet(store', c)[u] = dr.args[4]
            /\ (u \in DOMAIN PresenceSet(store', c) /\ ~AddsPresence(c, u))
               => /\ u \in DOMAIN PresenceSet(store, c)
                  /\ PresenceSet(store', c)[u] = PresenceSet(store, c)[u]]_vars

\* Two UIDs with different scores are in hash and set, both scripts having
\* run after time has passed, and the keys expire before the later score.
WitnessC24 ==
    \E c \in PresenceChannels :
        /\ now >= 2
        /\ DOMAIN PresenceSet(store, c) = UIDs
        /\ DOMAIN PresenceHash(store, c) = UIDs
        /\ PresenceSet(store, c)["u1"] # PresenceSet(store, c)["u2"]
        /\ store.ttl[getPresenceSetKey(c)] < PresenceSet(store, c)["u1"]

(***************************************************************************)
(* The workers and what they hand to the node                              *)
(***************************************************************************)
\* What the nodes and the other clients of the store may publish: nothing,
\* bytes that are no encoding, an encoded command and an encoded message.
ForeignData ==
    {<<>>, <<"garbage">>, EncodeCommand(Command(1)),
     EncodeMessage(NewPublicationMessage(ChA, EncodePublication(Publication(2))))}

ForeignChannels == {controlChannelID, pingChannelID} \cup {messageChannelID(c) : c \in PubSubChannels}

\* A node or another client of the store publishes data on the store channel
\* chID.
ForeignPublish(chID, data) ==
    /\ Len(store.applied) < MaxPubs
    /\ store' = PUBLISH(store, chID, data).st
    /\ UNCHANGED <<routeVars, extVars, now, envVars, taskVars, dataVars, pubVars, psVars,
                   presGhost, pubGhost>>

WorkInit ==
    /\ OneShard
    /\ ShardWith(TRUE, TRUE)
    /\ chOpts = [c \in Channels |-> NoOptions]
    /\ tpc = [t \in Tasks |-> IF t = "t1" THEN "idle" ELSE "off"]

WorkNext ==
    \/ \E t \in Tasks, ch \in PubSubChannels : ch \notin hub /\ Subscribe(t, ch)
    \/ SubExec
    \/ StoreSub
    \/ \E chID \in ForeignChannels, data \in ForeignData : ForeignPublish(chID, data)
    \/ Receive
    \/ \E i \in 0..(NumWorkers - 1) : Work(i)

\* The receiver and the workers run on.
WorkFairness == WF_vars(Receive) /\ \A i \in 0..(NumWorkers - 1) : WF_vars(Work(i))

SpecWork == WorkInit /\ [][WorkNext]_vars /\ WorkFairness

\* The step in which worker i takes the message at the head of its channel.
Takes(i) == lanes[i] # <<>> /\ lanes'[i] = Tail(lanes[i])

\* The worker steps leave the handlers' inputs hc and h as they are.
HandsNothing == handled' = handled /\ psLog'.control = psLog.control

\* C25: a command reaches the control handler only from a message of the
\* control channel that decodes, and every message of the control channel
\* with a payload that decodes reaches it; a message of the ping channel
\* reaches no handler; a message of another channel with a payload that
\* decodes is handed to the client message handler, and to it alone; a
\* message without payload or with a payload that does not decode reaches no
\* handler, the worker takes it alone from its channel and stays in its
\* loop, and every worker channel that holds messages is emptied.
TheoremC25 ==
    /\ [][\A i \in 0..(NumWorkers - 1) :
            Takes(i) =>
              LET n == Head(lanes[i])
                  hc == psLog.control
              IN /\ \A j \in 0..(NumWorkers - 1) : j # i => lanes'[j] = lanes[j]
                 /\ psPc' = psPc
                 /\ psLog'.control # hc
                    => /\ n.Channel = controlChannelID
                       /\ CommandDecodes(n.Data)
                       /\ psLog'.control = Append(hc, DecodeCommand(n.Data))
                       /\ handled' = handled
                 /\ (n.Channel = controlChannelID /\ Len(n.Data) > 0 /\ CommandDecodes(n.Data))
                    => psLog'.control # hc
                 /\ n.Channel = pingChannelID => HandsNothing
                 /\ (n.Channel \notin {controlChannelID, pingChannelID}
                     /\ Len(n.Data) > 0 /\ MessageDecodes(n.Data))
                    => /\ handled' = Append(handled, DecodeMessage(n.Data))
                       /\ psLog'.control = hc
                 /\ (n.Channel \notin {controlChannelID, pingChannelID}
                     /\ ~MessageDecodes(n.Data))
                    => HandsNothing
                 /\ (n.Channel = controlChannelID /\ ~CommandDecodes(n.Data))
                    => HandsNothing
                 /\ Len(n.Data) = 0 => HandsNothing]_vars
    /\ [][(handled' # handled \/ psLog'.control # psLog.control)
          => \E i \in 0..(NumWorkers - 1) : Takes(i)]_vars
    /\ \A i \in 0..(NumWorkers - 1) : (lanes[i] # <<>>) ~> (lanes[i] = <<>>)

\* The client message handler has been handed a message that its worker took
\* right after bytes of the same store channel that are no encoding.
WitnessC25 ==
    /\ Len(handled) = 1
    /\ Len(psLog.work) = 2
    /\ psLog.work[1].id = 0
    /\ psLog.work[2].id = 2
    /\ psLog.work[1].Channel = psLog.work[2].Channel
    /\ psLog.control = <<>>

\* Every message of a channel other than the control and the ping channel
\* whose payload decodes is handed to the client message handler.
CounterC25 ==
    [][\A i \in 0..(NumWorkers - 1) :
          (/\ Takes(i)
           /\ Head(lanes[i]).Channel \notin {controlChannelID, pingChannelID}
           /\ MessageDecodes(Head(lanes[i]).Data))
          => Len(handled') = Len(handled) + 1]_vars

(***************************************************************************)
(* Presence with adds of different expire values                           *)
(***************************************************************************)
LeaseInit ==
    /\ OneShard
    /\ ShardLeased(FALSE, FALSE, FALSE, TRUE)
    /\ chOpts = [c \in Channels |-> NoOptions]
    /\ tpc = [t \in Tasks |-> IF t = "t1" THEN "idle" ELSE "off"]

SpecLease == LeaseInit /\ [][PresenceNext]_vars

\* C26: when the store runs a presence read of a channel, the map returned
\* holds every UID for which the store ran an AddPresence with a positive
\* expire whose expire-at is still ahead, and no RemovePresence and no other
\* AddPresence of the same UID since.
CounterC26 ==
    [][\A dr \in DataRequests :
          (Answers(dr) /\ dr.op = dataOpPresence)
          => \A u \in UIDs :
                lease.at[dr.ch][u] > now => u \in DOMAIN tret'[dr.owner].val]_vars

(***************************************************************************)
(* The replies of the two pipelines                                        *)
(***************************************************************************)
ReplyInit ==
    /\ OneShard
    /\ ShardRunning
    /\ chOpts \in {[c \in Channels |-> IF c \in HistoryChannels THEN o ELSE NoOptions] :
                      o \in {h \in HistoryOptions : ~h.HistoryDropInactive}}
    /\ tpc = [t \in Tasks |-> "idle"]

ReplyNext ==
    \/ \E ch \in HistoryChannels : nextMsg <= MaxPubs /\ PublishCall("t1", "Publish", ch)
    \/ \E t \in Tasks : PublishSend(t)
    \/ \E t \in Tasks, ch \in PresenceChannels : Presence(t, ch)
    \/ ScriptFlush
    \/ PubLoad
    \/ PubFill
    \/ PubFlushFail
    \/ PubExec
    \/ PubExecFail
    \/ PubRestart
    \/ DataLoad
    \/ DataLoadFail
    \/ DataFill
    \/ DataFlushFail
    \/ DataExec
    \/ DataExecFail
    \/ DataRestart

SpecReply == ReplyInit /\ [][ReplyNext]_vars

\* The publish pipeline can read the next reply of its batch and hand it to
\* the request; the same for the data pipeline.
PubReplies == ENABLED (PubExec \/ PubExecFail)
DataReplies == ENABLED (DataExec \/ DataExecFail)

\* The publish requests the pipeline has taken and not answered yet.
PubPending == IF pubPc = "exec" THEN {prs[i].err : i \in pubI..Len(prs)} ELSE {}

\* The publish request id has been taken out of the publish channel.
Dequeued(id) ==
    /\ id < nextMsg
    /\ \A i \in 1..Len(pubCh) : pubCh[i].err # id
    /\ \A t \in Tasks : ~(tpc[t] = "pubSend" /\ tpub[t].err = id)

\* The data requests of task t that are in the data channel or taken by the
\* pipeline and not answered yet.
DataPending(t) ==
    Cardinality({i \in 1..Len(dataCh) : dataCh[i].owner = t})
    + (IF dataPc = "exec"
       THEN Cardinality({i \in dataI..Len(drs) : drs[i].owner = t}) ELSE 0)

\* C27: a publish request that the pipeline has taken is in the batch being
\* answered or has got one reply, never more, and a reply is only ever sent
\* to a reply channel that holds nothing; a task waits for the reply of a
\* data request exactly while this one request is in the data channel or in
\* the batch being answered, and the step that takes the request out of the
\* batch gives the task its reply; a pipeline that answers a batch can
\* always deliver the next reply, and each of its steps delivers one and
\* moves on by one request until the batch is done.
TheoremC27 ==
    /\ [](\A id \in 1..MaxMsgs :
            /\ pubInfo[id].done <= 1
            /\ pubInfo[id].done = 1 <=> pubRes[id] # "none"
            /\ Dequeued(id) => ((pubInfo[id].done = 1) <=> (id \notin PubPending))
            /\ ~Dequeued(id) => (pubInfo[id].done = 0 /\ id \notin PubPending))
    /\ [][\A id \in 1..MaxMsgs :
            pubRes'[id] # pubRes[id] => (pubRes[id] = "none" /\ id \notin PubPending')]_vars
    /\ [](\A t \in Tasks :
            /\ DataPending(t) <= 1
            /\ tpc[t] = "wait" <=> DataPending(t) = 1)
    /\ [][\A t \in Tasks :
            (tpc[t] = "wait" /\ tpc'[t] # "wait")
            => (tpc'[t] = "idle" /\ tret'[t].op # "none")]_vars
    /\ [](pubPc = "exec" => (pubI <= Len(prs) /\ PubReplies))
    /\ [](dataPc = "exec" => (dataI <= Len(drs) /\ DataReplies))
    /\ [][(pubPc = "exec" /\ <<pubPc, pubI>>' # <<pubPc, pubI>>)
          => /\ pubRes'[prs[pubI].err] # "none"
             /\ \/ pubPc' = "exec" /\ pubI' = pubI + 1 /\ prs' = prs
                \/ pubPc' # "exec" /\ pubI = Len(prs)]_vars
    /\ [][(dataPc = "exec" /\ <<dataPc, dataI>>' # <<dataPc, dataI>>)
          => /\ tpc'[drs[dataI].owner] = "idle"
             /\ \/ dataPc' = "exec" /\ dataI' = dataI + 1 /\ drs' = drs
                \/ dataPc' # "exec" /\ dataI = Len(drs)]_vars

\* The two publish requests have had their one reply, a NOSCRIPT error and a
\* flush error, and a presence read was answered with a NOSCRIPT error.
WitnessC27 ==
    /\ \E id1, id2 \in 1..MaxMsgs :
          /\ pubRes[id1] = NoScript
          /\ pubRes[id2] = FlushError
          /\ pubInfo[id1].done = 1 /\ pubInfo[id2].done = 1
    /\ \E t \in Tasks : tret[t].op = "Presence" /\ tret[t].err = NoScript
(***************************************************************************)
(* Publishing and subscribing on one shard, with failures of the publish   *)
(* connection and of the subscription connection                           *)
(***************************************************************************)
PubSubInit ==
    /\ OneShard
    /\ ShardRunning
    /\ chOpts = [c \in Channels |-> NoOptions]
    /\ tpc = [t \in Tasks |-> IF t = "t1" THEN "idle" ELSE "off"]

PubSubNext ==
    \/ \E ch \in PubSubChannels : nextMsg <= MaxPubs /\ Publish(ch)
    \/ \E t \in Tasks, ch \in PubSubChannels : Subscribe(t, ch)
    \/ PubLoad
    \/ PubFill
    \/ PubFlushFail
    \/ PubExec
    \/ PubRestart
    \/ PubSubStart
    \/ PubSubInitSend
    \/ SubExec
    \/ SubExecFail
    \/ StoreSub
    \/ Receive
    \/ ReceiveError
    \/ PubSubRestart
    \/ \E i \in 0..(NumWorkers - 1) : Work(i)
    \/ \E g \in 1..MaxFailures, i \in 0..(NumWorkers - 1) : ZombieWork(g, i)
    \/ \E g \in 1..MaxFailures, i \in 0..(NumWorkers - 1) : ZombieExit(g, i)

SpecPubSub == PubSubInit /\ [][PubSubNext]_vars

\* The publication number of a message handed to the handler.
HandledID(msg) == DecodePublication(msg.Data).UID

\* How often the publication id on channel c was handed to the handler.
Count(id, c) ==
    Cardinality({i \in 1..Len(handled) :
                    handled[i].Channel = c /\ HandledID(handled[i]) = id})

\* The publications of the requests that wait in the publish pipeline.
Pending ==
    {pubCh[i].err : i \in 1..Len(pubCh)} \cup {prs[i].err : i \in pubI..Len(prs)}

\* The publication was called and is nowhere any more: neither in the
\* pipeline, nor on the connection, nor in a worker channel.
Gone(id) ==
    /\ id < nextMsg
    /\ id \notin Pending
    /\ id \notin MsgIDs(store.inq)
    /\ id \notin LaneIDs(lanes)
    /\ \A g \in 1..Len(zlanes) : id \notin LaneIDs(zlanes[g])

\* The store applies the publications of a channel in the order of the calls.
AppliedInOrder ==
    \A i, j \in 1..Len(store.applied) :
        (i < j /\ store.applied[i].Channel = store.applied[j].Channel)
        => MsgID(store.applied[i]) < MsgID(store.applied[j])

\* C1: the store applies the publications of a channel in the order of
\* their calls, and the handler is handed them in that order.
CounterC1 ==
    /\ AppliedInOrder
    /\ \A i, j \in 1..Len(handled) :
          (i < j /\ handled[i].Channel = handled[j].Channel)
          => HandledID(handled[i]) < HandledID(handled[j])

\* C2 as stated: a publication called when Subscribe of its channel had
\* returned without error is handed to the handler exactly once: never
\* twice, and it is never gone without having been handed.
CounterC2 ==
    \A id \in 1..MaxMsgs :
        pubInfo[id].afterSub
        => /\ Count(id, pubInfo[id].ch) <= 1
           /\ Gone(id) => Count(id, pubInfo[id].ch) = 1

\* C2: such a publication is handed to the handler at most once; it is
\* gone without having been handed only if its flush failed, or the store
\* applied it when the subscription connection was not subscribed to the
\* channel, or the runPubSub that was to handle it returned before.
TheoremC2 ==
    \A id \in 1..MaxMsgs :
        pubInfo[id].afterSub
        => /\ Count(id, pubInfo[id].ch) <= 1
           /\ (Gone(id) /\ Count(id, pubInfo[id].ch) = 0)
                 => pubInfo[id].fate \in {"failed", "unsubscribed", "dropped"}
           /\ pubInfo[id].fate = "failed" => pubRes[id] = FlushError
           /\ pubInfo[id].fate \in {"failed", "unsubscribed"}
                 => Count(id, pubInfo[id].ch) = 0

\* A publication called after Subscribe returned has been handed to the
\* handler once, and another one was lost with the connection.
WitnessC2 ==
    \E id1, id2 \in 1..MaxMsgs :
        /\ pubInfo[id1].afterSub /\ pubInfo[id2].afterSub
        /\ Count(id1, pubInfo[id1].ch) = 1
        /\ Gone(id1)
        /\ Gone(id2)
        /\ pubInfo[id2].fate = "dropped"

====
